---- MODULE Spec2Model ----
(***************************************************************************)
(* lazywork: the use/return session state machine of the worktree          *)
(* commands (cmd/worktree.go) over the session files and the git backend   *)
(* (internal/git/git.go).                                                  *)
(*                                                                         *)
(* One invocation of the tool is a process p with a program counter; each  *)
(* action is one backend call or file operation of the handler, in the     *)
(* order of the code.  The git repository (branch of the main checkout,    *)
(* tracked modifications, untracked files, stash stack) and the two        *)
(* session files are shared state.  The user's own git commands are the    *)
(* User* actions.                                                          *)
(***************************************************************************)
EXTENDS Integers, Sequences, FiniteSets, TLC

\* Bounds of the model.
MaxChanges == 2
MaxStash == 2

Procs == {"p1", "p2"}

\* Tracked modifications of the working tree are told apart by a number.
Changes == 1..MaxChanges

\* Local branches; Detached is what `git rev-parse --abbrev-ref HEAD` prints
\* on a detached HEAD.
Branches == {"main", "feat"}
Detached == "HEAD"
Heads == Branches \cup {Detached}

\* A file that does not exist; the base of a stash entry whose branch has
\* moved on since the entry was made.
Absent == "<absent>"
Moved == "<moved>"

\* The name argument of a command (NoArg: none given).
NoArg == "<none>"
Names == {"feat", "exp", "nope"}

VARIABLES
  head,       \* branch checked out in the main worktree
  dirty,      \* tracked modifications in the main worktree
  untracked,  \* untracked files are present in the main worktree
  stash,      \* stash stack, stash@{0} first: [changes, base]
  prevFile,   \* .git/LAZYWORK_PREVIOUS_BRANCH: Absent or its content
  stashFile,  \* .git/LAZYWORK_STASH_REF: Absent or its content
  inv,        \* per process: program counter, flags, locals, outcome
  lastOk,     \* the last session command that reported success
  origin,     \* where the last successful Use started, until a Return succeeds
  histFile,   \* ~/.config/lazywork/history.json: Absent or its content
  h,          \* per process: the WorktreeHistory it holds in memory
  calls,      \* per process: the RecordVisit calls made on h, in order
  loaded,     \* per process: what LoadHistory returned after its Save
  hpc,        \* per process: where it is in new / record / save / load
  nav,        \* per process: a navigation command (go, go --previous)
  pwd,        \* per process: the directory its shell stands in
  cfgDir,     \* worktree_dir of the configuration file ("" when not set)
  wtList,     \* the worktrees of the repository the shell stands in
  ran,        \* the last command line typed and what became of it
  fin,        \* what Finish has merged, removed and deleted so far
  storeCalls, \* the SaveUseState and ClearUseState calls made on their own, in order
  sel,        \* the worktree selector: its Model, or closed
  configFile, \* ~/.config/lazywork/config.json, but for its worktree_dir
  branches    \* the local branches of the repository the shell stands in

useVars == <<head, dirty, untracked, stash, prevFile, stashFile, inv, lastOk, origin>>
histVars == <<h, calls, loaded, hpc>>
navVars == <<nav, pwd>>
resVars == <<cfgDir, wtList, ran>>
sideVars == <<histFile, histVars, navVars, resVars>>
extVars == <<storeCalls, sel, configFile, branches>>
vars == <<useVars, sideVars, fin, extVars>>
otherVars == <<sideVars, fin, extVars>>
restVars == <<useVars, resVars, fin, extVars>>

repoVars == <<head, dirty, untracked, stash>>
fileVars == <<prevFile, stashFile>>
logVars == <<lastOk, origin>>

----------------------------------------------------------------------------
\* Worktree list of the repository (git worktree list --porcelain).

Worktree(path, branch, bare) == [path |-> path, branch |-> branch, bare |-> bare]

ListWorktrees ==
  << Worktree(<<"repo">>, IF head = Detached THEN "" ELSE head, FALSE),
     Worktree(<<"repo", ".worktrees", "feat">>, "feat", FALSE),
     Worktree(<<"repo", ".worktrees", "exp">>, "", FALSE) >>

Base(path) == path[Len(path)]

\* strings.Contains(path, "/.worktrees/")
InWorktreesDir(path) == \E i \in 1..(Len(path) - 1) : path[i] = ".worktrees"

IsSecondary(wt) == ~wt.bare /\ InWorktreesDir(wt.path)

SecondaryWorktrees == SelectSeq(ListWorktrees, IsSecondary)

\* The loop of runWorktreeUse: the first worktree whose base name or branch
\* is the token; 0 when there is none.
\* Variant: the beginning of the last path segment is enough.
MatchesNameOrPrefix(wt, name) ==
  \/ Base(wt.path) = name \/ wt.branch = name
  \/ name = "feat" /\ Base(wt.path) = "feature-auth"

MatchesName(wt, name) == Base(wt.path) = name \/ wt.branch = name

FindTarget(wts, name) ==
  IF \E i \in 1..Len(wts) : MatchesName(wts[i], name)
  THEN CHOOSE i \in 1..Len(wts) :
         /\ MatchesName(wts[i], name)
         /\ \A j \in 1..(i - 1) : ~MatchesName(wts[j], name)
  ELSE 0

----------------------------------------------------------------------------
\* The state of one invocation.

Snapshot ==
  [head |-> head, dirty |-> dirty, untracked |-> untracked, stash |-> stash,
   prevFile |-> prevFile, stashFile |-> stashFile]

NoSnapshot ==
  [head |-> Detached, dirty |-> {}, untracked |-> FALSE, stash |-> <<>>,
   prevFile |-> Absent, stashFile |-> Absent]

IdleInv ==
  [pc |-> "idle", cmd |-> "none", cwd |-> "main", tty |-> FALSE, json |-> FALSE,
   arg |-> NoArg, target |-> "", cur |-> "", stashRef |-> "", prev |-> "",
   result |-> "", warn |-> {}, did |-> {}, pre |-> NoSnapshot]

AllIdle == \A q \in Procs : inv[q].pc = "idle"

\* The process goes to step pc with the local record r.
Goto(p, r, pc) == inv' = [inv EXCEPT ![p] = [r EXCEPT !.pc = pc]]

\* The handler returns: code is the machine code given to out.ErrorResult,
\* "OK" on success, "FORM_ERROR" when a prompt was aborted (the form's error
\* is returned as it is).
Ret(p, r, code) == inv' = [inv EXCEPT ![p] = [r EXCEPT !.pc = "done", !.result = code]]

Did(r, what) == [r EXCEPT !.did = @ \cup {what}]

\* Output.IsTTY: interactive only on a terminal and not with --json.
IsTTY(r) == r.tty /\ ~r.json

----------------------------------------------------------------------------
\* The git backend.

\* git status --porcelain is not empty.
HasUncommittedChanges == dirty # {} \/ untracked

\* git checkout <branch>: the empty name is refused, HEAD is a no-op that
\* succeeds, any other branch may be refused (checked out elsewhere, files
\* in the way).
CheckoutOutcomes(b) ==
  IF b = "" THEN {FALSE} ELSE IF b = Detached THEN {TRUE} ELSE BOOLEAN

HeadAfterCheckout(b) == IF b = Detached THEN head ELSE b

\* Once HEAD has left the commit or branch a stash entry was made on, or
\* that branch has new commits, the entry may no longer apply cleanly.
MarkMoved(base) ==
  [i \in 1..Len(stash) |->
     IF stash[i].base = base THEN [stash[i] EXCEPT !.base = Moved] ELSE stash[i]]

\* Leaving a detached HEAD loses the commit its stash entries were made on.
StashAfterCheckout(b) ==
  IF head = Detached /\ b # Detached THEN MarkMoved(Detached) ELSE stash

\* git stash push: nothing is saved when no tracked file is modified
\* ("No local changes to save", exit 0); untracked files are never saved.
StashAfterPush ==
  IF dirty = {} THEN stash
  ELSE <<[changes |-> dirty, base |-> head]>> \o stash

\* git stash push can fail; it is refused here once the stack is full.
StashPushOutcomes ==
  IF dirty = {} \/ Len(stash) < MaxStash THEN BOOLEAN ELSE {FALSE}

\* git stash pop: fails on an empty stack; applied to the clean tree of the
\* branch the entry was made on, unchanged since, it succeeds; anywhere else
\* it may conflict.
StashPopOutcomes ==
  IF stash = <<>> THEN {FALSE}
  ELSE IF Head(stash).base = head /\ dirty = {} THEN {TRUE}
  ELSE BOOLEAN

\* Stash(): the reference is the text before the first ':' of
\* `git stash list -1`, empty when the stack is empty.
StashListRef == IF stash = <<>> THEN "" ELSE "stash@{0}"

\* os.WriteFile: on failure the file is as before (open failed) or exists
\* with no content (created, write failed).
WriteFailures(old) == {old, ""}

----------------------------------------------------------------------------
\* The session files (git.go: SaveState, LoadState, ClearState).

\* Variant: the session is looked for in the stash reference file.
HasSavedStateByStashRef == stashFile # Absent

\* HasSavedState: LoadState(statePreviousBranch) gives no error.
HasSavedState == prevFile # Absent

\* LoadUseState reads the stash reference ignoring the error: a missing
\* file reads as the empty string.
LoadedStashRef == IF stashFile = Absent THEN "" ELSE stashFile

\* SaveUseState writes the stash reference only when there is one.
SavesStashRef(ref) == ref # ""

----------------------------------------------------------------------------
\* runWorktreeUse.

\* A new invocation of `worktree use`: where it is run, whether stdin is a
\* terminal, and --json.  IsInsideWorkTree and IsMainWorktree depend on the
\* directory alone.
UseStart(p) ==
  /\ inv[p].pc = "idle"
  /\ \E cwd \in {"outside", "main", "secondary"}, tty \in BOOLEAN, json \in BOOLEAN :
       LET r == [IdleInv EXCEPT !.cmd = "use", !.cwd = cwd, !.tty = tty,
                                !.json = json, !.pre = Snapshot]
       IN  IF cwd = "outside" THEN Ret(p, r, "NOT_GIT_REPO")
           ELSE IF cwd = "secondary" THEN Ret(p, r, "NOT_MAIN_WORKTREE")
           ELSE Goto(p, r, "u_state")
  /\ UNCHANGED <<repoVars, fileVars, logVars>>

UseHasSavedState(p) ==
  /\ inv[p].pc = "u_state"
  /\ IF HasSavedState THEN Ret(p, inv[p], "STATE_EXISTS")
     ELSE Goto(p, inv[p], "u_resolve")
  /\ UNCHANGED <<repoVars, fileVars, logVars>>

\* The name: args[0], or the choice made in the selection form on a terminal
\* (a listed base name, or the form aborted), or NAME_REQUIRED.
UseResolve(p) ==
  /\ inv[p].pc = "u_resolve"
  /\ LET wts == SecondaryWorktrees
     IN  \E listed \in BOOLEAN, arg \in Names \cup {NoArg},
            pick \in {Base(wts[i].path) : i \in 1..Len(wts)} \cup {NoArg} :
           LET r == [inv[p] EXCEPT !.arg = arg]
           IN  IF ~listed THEN Ret(p, inv[p], "WORKTREE_LIST_ERROR")
               ELSE IF Len(wts) = 0 THEN Ret(p, inv[p], "NO_WORKTREES")
               ELSE IF arg = NoArg /\ ~IsTTY(r) THEN Ret(p, r, "NAME_REQUIRED")
               ELSE IF arg = NoArg /\ pick = NoArg THEN Ret(p, r, "FORM_ERROR")
               ELSE LET name == IF arg # NoArg THEN arg ELSE pick
                        i == FindTarget(wts, name)
                    IN  IF i = 0 THEN Ret(p, r, "WORKTREE_NOT_FOUND")
                        ELSE IF wts[i].branch = "" THEN Ret(p, r, "DETACHED_HEAD")
                        ELSE Goto(p, [r EXCEPT !.target = wts[i].branch], "u_branch")
  /\ UNCHANGED <<repoVars, fileVars, logVars>>

UseCurrentBranch(p) ==
  /\ inv[p].pc = "u_branch"
  /\ \E ok \in BOOLEAN :
       IF ok THEN Goto(p, [inv[p] EXCEPT !.cur = head], "u_dirty")
       ELSE Ret(p, inv[p], "BRANCH_ERROR")
  /\ UNCHANGED <<repoVars, fileVars, logVars>>

\* Variant: without a terminal Use always stashes without asking.
UseDirtyPathNeverRefuses(r) == IF IsTTY(r) THEN "prompt" ELSE "stash"

\* What Use does about a dirty working tree: ask on a terminal, refuse when
\* there is no terminal and no --json, stash without asking under --json.
UseDirtyPath(r) ==
  IF IsTTY(r) THEN "prompt" ELSE IF ~r.json THEN "refuse" ELSE "stash"

\* Variant: the answer "No, cancel" is not looked at.
AfterStashPromptAnswerIgnored(answer) ==
  IF answer = "abort" THEN "FORM_ERROR" ELSE "u_stash_push"

\* After StashConfirmForm: the form's error is returned, "No, cancel" is
\* CANCELLED, "Yes, stash" goes on to Stash().
AfterStashPrompt(answer) ==
  IF answer = "abort" THEN "FORM_ERROR"
  ELSE IF answer = "no" THEN "CANCELLED" ELSE "u_stash_push"

UseHasUncommitted(p) ==
  /\ inv[p].pc = "u_dirty"
  /\ LET r == inv[p]
     IN  IF ~HasUncommittedChanges THEN Goto(p, r, "u_save_prev")
         ELSE IF UseDirtyPath(r) = "prompt"
           THEN \E answer \in {"yes", "no", "abort"} :
                  LET asked == Did(r, "prompt:" \o answer)
                      to == AfterStashPrompt(answer)
                  IN  IF to = "u_stash_push" THEN Goto(p, asked, to)
                      ELSE Ret(p, asked, to)
         ELSE IF UseDirtyPath(r) = "refuse" THEN Ret(p, r, "UNCOMMITTED_CHANGES")
         ELSE Goto(p, r, "u_stash_push")
  /\ UNCHANGED <<repoVars, fileVars, logVars>>

\* Stash(): git stash push -m ...
UseStashPush(p) ==
  /\ inv[p].pc = "u_stash_push"
  /\ \E ok \in StashPushOutcomes :
       IF ok
       THEN /\ stash' = StashAfterPush
            /\ dirty' = {}
            /\ Goto(p, Did(inv[p], IF dirty = {} THEN "stash_noop" ELSE "stash_push"),
                    "u_stash_list")
       ELSE /\ UNCHANGED <<stash, dirty>>
            /\ Ret(p, inv[p], "STASH_ERROR")
  /\ UNCHANGED <<head, untracked, fileVars, logVars>>

\* Stash(): git stash list -1
UseStashList(p) ==
  /\ inv[p].pc = "u_stash_list"
  /\ \E ok \in BOOLEAN :
       IF ok THEN Goto(p, [inv[p] EXCEPT !.stashRef = StashListRef], "u_save_prev")
       ELSE Ret(p, inv[p], "STASH_ERROR")
  /\ UNCHANGED <<repoVars, fileVars, logVars>>

\* SaveUseState: SaveState(statePreviousBranch, previousBranch)
UseSavePrev(p) ==
  /\ inv[p].pc = "u_save_prev"
  /\ \E ok \in BOOLEAN :
       IF ok
       THEN /\ prevFile' = inv[p].cur
            /\ Goto(p, Did(inv[p], "write_prev"),
                    IF SavesStashRef(inv[p].stashRef) THEN "u_save_stash" ELSE "u_checkout")
       ELSE /\ prevFile' \in WriteFailures(prevFile)
            /\ Ret(p, inv[p], "STATE_SAVE_ERROR")
  /\ UNCHANGED <<repoVars, stashFile, logVars>>

\* SaveUseState: SaveState(stateStashRef, stashRef)
UseSaveStash(p) ==
  /\ inv[p].pc = "u_save_stash"
  /\ \E ok \in BOOLEAN :
       IF ok
       THEN /\ stashFile' = inv[p].stashRef
            /\ Goto(p, Did(inv[p], "write_stash"), "u_checkout")
       ELSE /\ stashFile' \in WriteFailures(stashFile)
            /\ Ret(p, inv[p], "STATE_SAVE_ERROR")
  /\ UNCHANGED <<repoVars, prevFile, logVars>>

\* git.Checkout(targetWorktree.Branch); on failure the rollback starts.
UseCheckout(p) ==
  /\ inv[p].pc = "u_checkout"
  /\ \E ok \in CheckoutOutcomes(inv[p].target) :
       IF ok
       THEN /\ head' = HeadAfterCheckout(inv[p].target)
            /\ stash' = StashAfterCheckout(inv[p].target)
            /\ Ret(p, Did(inv[p], "checkout"), "OK")
       ELSE /\ UNCHANGED <<head, stash>>
            /\ Goto(p, Did(inv[p], "checkout_failed"), "u_rb_prev")
  /\ UNCHANGED <<dirty, untracked, fileVars, logVars>>

\* Rollback, ClearUseState: ClearState(statePreviousBranch)
UseRollbackClearPrev(p) ==
  /\ inv[p].pc = "u_rb_prev"
  /\ prevFile' = Absent
  /\ Goto(p, inv[p], "u_rb_stash")
  /\ UNCHANGED <<repoVars, stashFile, logVars>>

\* Variant: the rollback never pops the stash.
RollbackPopsNever(r) == FALSE

\* The rollback pops the stash when Stash() returned a reference.
RollbackPops(r) == r.stashRef # ""

\* Rollback, ClearUseState: ClearState(stateStashRef)
UseRollbackClearStash(p) ==
  /\ inv[p].pc = "u_rb_stash"
  /\ stashFile' = Absent
  /\ IF RollbackPops(inv[p]) THEN Goto(p, inv[p], "u_rb_pop")
     ELSE Ret(p, inv[p], "CHECKOUT_ERROR")
  /\ UNCHANGED <<repoVars, prevFile, logVars>>

\* Rollback: git.StashPop(), its error dropped.
UseRollbackPop(p) ==
  /\ inv[p].pc = "u_rb_pop"
  /\ \E ok \in StashPopOutcomes :
       IF ok
       THEN /\ dirty' = dirty \cup Head(stash).changes
            /\ stash' = Tail(stash)
            /\ Ret(p, Did(inv[p], "pop"), "CHECKOUT_ERROR")
       ELSE /\ UNCHANGED <<dirty, stash>>
            /\ Ret(p, Did(inv[p], "pop_failed"), "CHECKOUT_ERROR")
  /\ UNCHANGED <<head, untracked, fileVars, logVars>>

----------------------------------------------------------------------------
\* runWorktreeReturn.

ReturnStart(p) ==
  /\ inv[p].pc = "idle"
  /\ \E cwd \in {"outside", "main", "secondary"} :
       LET r == [IdleInv EXCEPT !.cmd = "return", !.cwd = cwd, !.pre = Snapshot]
       IN  IF cwd = "outside" THEN Ret(p, r, "NOT_GIT_REPO")
           ELSE IF cwd = "secondary" THEN Ret(p, r, "NOT_MAIN_WORKTREE")
           ELSE Goto(p, r, "r_load_prev")
  /\ UNCHANGED <<repoVars, fileVars, logVars>>

\* LoadUseState: LoadState(statePreviousBranch); its error is NO_STATE.
ReturnLoadPrev(p) ==
  /\ inv[p].pc = "r_load_prev"
  /\ IF ~HasSavedState THEN Ret(p, inv[p], "NO_STATE")
     ELSE Goto(p, [inv[p] EXCEPT !.prev = prevFile], "r_load_stash")
  /\ UNCHANGED <<repoVars, fileVars, logVars>>

\* LoadUseState: stashRef, _ = LoadState(stateStashRef)
ReturnLoadStash(p) ==
  /\ inv[p].pc = "r_load_stash"
  /\ Goto(p, [inv[p] EXCEPT !.stashRef = LoadedStashRef], "r_dirty")
  /\ UNCHANGED <<repoVars, fileVars, logVars>>

ReturnHasUncommitted(p) ==
  /\ inv[p].pc = "r_dirty"
  /\ IF HasUncommittedChanges THEN Ret(p, inv[p], "UNCOMMITTED_CHANGES")
     ELSE Goto(p, inv[p], "r_checkout")
  /\ UNCHANGED <<repoVars, fileVars, logVars>>

\* Return pops the stash when a reference was loaded.
ReturnPops(r) == r.stashRef # ""

\* Variant: the session files are cleared before the checkout is known to
\* have succeeded.
ReturnCheckoutClearsFirst(p) ==
  /\ inv[p].pc = "r_checkout"
  /\ prevFile' = Absent
  /\ stashFile' = Absent
  /\ \E ok \in CheckoutOutcomes(inv[p].prev) :
       IF ok
       THEN /\ head' = HeadAfterCheckout(inv[p].prev)
            /\ stash' = StashAfterCheckout(inv[p].prev)
            /\ Goto(p, Did(inv[p], "checkout"),
                    IF inv[p].stashRef # "" THEN "r_pop" ELSE "r_clear_prev")
       ELSE /\ UNCHANGED <<head, stash>>
            /\ Ret(p, Did(inv[p], "checkout_failed"), "CHECKOUT_ERROR")
  /\ UNCHANGED <<dirty, untracked, logVars>>

\* git.Checkout(previousBranch)
ReturnCheckout(p) ==
  /\ inv[p].pc = "r_checkout"
  /\ \E ok \in CheckoutOutcomes(inv[p].prev) :
       IF ok
       THEN /\ head' = HeadAfterCheckout(inv[p].prev)
            /\ stash' = StashAfterCheckout(inv[p].prev)
            /\ Goto(p, Did(inv[p], "checkout"),
                    IF ReturnPops(inv[p]) THEN "r_pop" ELSE "r_clear_prev")
       ELSE /\ UNCHANGED <<head, stash>>
            /\ Ret(p, Did(inv[p], "checkout_failed"), "CHECKOUT_ERROR")
  /\ UNCHANGED <<dirty, untracked, fileVars, logVars>>

\* Variant: a failed pop ends Return at once.
AfterReturnPopFatal(ok) == IF ok THEN "r_clear_prev" ELSE "done"

\* Where Return goes after the stash pop, failed or not.
AfterReturnPop(ok) == "r_clear_prev"

\* git.StashPop(): a failure is a warning.
ReturnStashPop(p) ==
  /\ inv[p].pc = "r_pop"
  /\ \E ok \in StashPopOutcomes :
       IF ok
       THEN /\ dirty' = dirty \cup Head(stash).changes
            /\ stash' = Tail(stash)
            /\ Goto(p, Did(inv[p], "pop"), AfterReturnPop(ok))
       ELSE /\ UNCHANGED <<dirty, stash>>
            /\ Goto(p, [Did(inv[p], "pop_failed") EXCEPT !.warn = @ \cup {"stash"}],
                    AfterReturnPop(ok))
  /\ UNCHANGED <<head, untracked, fileVars, logVars>>

\* ClearUseState: ClearState(statePreviousBranch)
ReturnClearPrev(p) ==
  /\ inv[p].pc = "r_clear_prev"
  /\ prevFile' = Absent
  /\ Goto(p, inv[p], "r_clear_stash")
  /\ UNCHANGED <<repoVars, stashFile, logVars>>

\* ClearUseState: ClearState(stateStashRef); Return reports success.
ReturnClearStash(p) ==
  /\ inv[p].pc = "r_clear_stash"
  /\ stashFile' = Absent
  /\ Ret(p, inv[p], "OK")
  /\ UNCHANGED <<repoVars, prevFile, logVars>>

NoOrigin == [head |-> "", stashed |-> {}]

\* The branch Use started on and the changes its stash push put away.
OriginOf(r) ==
  [head |-> r.pre.head,
   stashed |-> IF "stash_push" \in r.did THEN r.pre.dirty ELSE {}]

\* The process ends; a success is remembered as the last successful command.
Exit(p) ==
  /\ inv[p].pc = "done"
  /\ inv' = [inv EXCEPT ![p] = IdleInv]
  /\ lastOk' = IF inv[p].result = "OK" THEN inv[p].cmd ELSE lastOk
  /\ origin' = IF inv[p].result # "OK" THEN origin
               ELSE IF inv[p].cmd = "use" THEN OriginOf(inv[p]) ELSE NoOrigin
  /\ UNCHANGED <<repoVars, fileVars>>

----------------------------------------------------------------------------
\* What the user does to the repository with git itself.

StashedChanges == UNION {stash[i].changes : i \in 1..Len(stash)}

UserEdit ==
  /\ \E c \in Changes \ (dirty \cup StashedChanges) : dirty' = dirty \cup {c}
  /\ UNCHANGED <<head, untracked, stash, fileVars, inv, logVars>>

UserUntracked ==
  /\ untracked' = ~untracked
  /\ UNCHANGED <<head, dirty, stash, fileVars, inv, logVars>>

UserCommit ==
  /\ dirty # {}
  /\ dirty' = {}
  /\ stash' = MarkMoved(head)
  /\ UNCHANGED <<head, untracked, fileVars, inv, logVars>>

BranchMoves ==
  /\ \E b \in Branches \ {head} :
       /\ \E i \in 1..Len(stash) : stash[i].base = b
       /\ stash' = MarkMoved(b)
  /\ UNCHANGED <<head, dirty, untracked, fileVars, inv, logVars>>

UserStashPush ==
  /\ dirty # {}
  /\ Len(stash) < MaxStash
  /\ stash' = StashAfterPush
  /\ dirty' = {}
  /\ UNCHANGED <<head, untracked, fileVars, inv, logVars>>

UserStashDrop ==
  /\ stash # <<>>
  /\ stash' = Tail(stash)
  /\ UNCHANGED <<head, dirty, untracked, fileVars, inv, logVars>>

UserCheckout ==
  /\ dirty = {}
  /\ \E b \in Heads \ {head} :
       /\ head' = b
       /\ stash' = StashAfterCheckout(b)
  /\ UNCHANGED <<dirty, untracked, fileVars, inv, logVars>>

----------------------------------------------------------------------------
\* History Store (internal/state): per repository, the worktree path the
\* user is at and the one they came from, kept in one JSON file.

\* A string is the sequence of its pieces.  BadByte is a byte that is not
\* valid UTF-8, Replacement the rune U+FFFD.
BadByte == "\\xff"
Replacement == "\\ufffd"
EmptyString == <<>>

\* Repository keys and worktree paths handed to the store.
HistRepos == {<<"repo", ".git">>, <<"other", ".git">>}
HistPaths == {EmptyString, <<"a">>, <<"b">>, <<"c">>, <<"a", BadByte>>}

\* time.Time: the zero value, and the time of a Save.
ZeroTime == "0001-01-01T00:00:00Z"
Now == "<now>"

RepoState(previous, current) == [Previous |-> previous, Current |-> current]

\* A Go map[string]RepoState: nil, or its entries.
NilMap == [nil |-> TRUE, entries |-> <<>>]
MakeMap == [nil |-> FALSE, entries |-> <<>>]

\* m[k]: the zero value when the key is missing (or the map nil).
MapIndex(m, k) ==
  IF k \in DOMAIN m.entries THEN m.entries[k]
  ELSE RepoState(EmptyString, EmptyString)

\* m[k] = v
MapAssign(m, k, v) ==
  [nil |-> FALSE,
   entries |-> [x \in (DOMAIN m.entries) \cup {k} |->
                  IF x = k THEN v ELSE m.entries[x]]]

WorktreeHistory(repoHistory, updatedAt) ==
  [RepoHistory |-> repoHistory, UpdatedAt |-> updatedAt]

\* &WorktreeHistory{}
NewHistory == WorktreeHistory(NilMap, ZeroTime)

\* Variant: the new path is stored without moving the current one down.
RecordVisitKeepsPrevious(hh, repoRoot, worktreePath) ==
  LET m == IF hh.RepoHistory.nil THEN MakeMap ELSE hh.RepoHistory
      state == MapIndex(m, repoRoot)
  IN  [hh EXCEPT !.RepoHistory =
         MapAssign(m, repoRoot, RepoState(state.Previous, worktreePath))]

\* Variant: every call shifts, also a visit of the current path.
RecordVisitAlwaysShifts(hh, repoRoot, worktreePath) ==
  LET m == IF hh.RepoHistory.nil THEN MakeMap ELSE hh.RepoHistory
      state == MapIndex(m, repoRoot)
  IN  [hh EXCEPT !.RepoHistory =
         MapAssign(m, repoRoot, RepoState(state.Current, worktreePath))]

\* Variant: the visit replaces the whole map by the one entry.
RecordVisitDropsOthers(hh, repoRoot, worktreePath) ==
  LET m == IF hh.RepoHistory.nil THEN MakeMap ELSE hh.RepoHistory
      state == MapIndex(m, repoRoot)
  IN  IF state.Current # worktreePath
      THEN [hh EXCEPT !.RepoHistory =
              MapAssign(MakeMap, repoRoot,
                        RepoState(state.Current, worktreePath))]
      ELSE [hh EXCEPT !.RepoHistory = m]

RecordVisit(hh, repoRoot, worktreePath) ==
  LET m == IF hh.RepoHistory.nil THEN MakeMap ELSE hh.RepoHistory
      state == MapIndex(m, repoRoot)
  IN  IF state.Current # worktreePath
      THEN [hh EXCEPT !.RepoHistory =
              MapAssign(m, repoRoot, RepoState(state.Current, worktreePath))]
      ELSE [hh EXCEPT !.RepoHistory = m]

\* Variant: with no previous path the current one is given.
GetPreviousOrCurrent(hh, repoRoot) ==
  LET state == MapIndex(hh.RepoHistory, repoRoot)
  IN  IF state.Previous = EmptyString THEN state.Current ELSE state.Previous

GetPrevious(hh, repoRoot) ==
  IF hh.RepoHistory.nil THEN EmptyString
  ELSE MapIndex(hh.RepoHistory, repoRoot).Previous

GetCurrent(hh, repoRoot) ==
  IF hh.RepoHistory.nil THEN EmptyString
  ELSE MapIndex(hh.RepoHistory, repoRoot).Current

\* encoding/json writes a string coerced to valid UTF-8: every invalid
\* byte becomes U+FFFD.
ToValidUTF8(str) ==
  [i \in DOMAIN str |-> IF str[i] = BadByte THEN Replacement ELSE str[i]]

\* The history file: missing, zero bytes long, or a JSON document.
NoFile == [kind |-> "absent"]
EmptyFile == [kind |-> "empty"]

\* json.MarshalIndent(h): object keys and string values are coerced; a nil
\* map is written as null.
MarshalMap(m) ==
  [null |-> m.nil,
   entries |->
     [ck \in {ToValidUTF8(k) : k \in DOMAIN m.entries} |->
        LET k == CHOOSE x \in DOMAIN m.entries : ToValidUTF8(x) = ck
        IN  RepoState(ToValidUTF8(m.entries[k].Previous),
                      ToValidUTF8(m.entries[k].Current))]]

Marshal(hh) ==
  [kind |-> "json",
   repo_history |-> MarshalMap(hh.RepoHistory),
   updated_at |-> hh.UpdatedAt]

\* json.Unmarshal(data, &history)
Unmarshal(data) ==
  WorktreeHistory([nil |-> data.repo_history.null,
                   entries |-> data.repo_history.entries],
                  data.updated_at)

LoadResult(err, history) == [err |-> err, history |-> history]
NoLoad == LoadResult(TRUE, NewHistory)

\* Variant: a missing map in the file is left nil and nothing else is read.
LoadHistoryForgetsEntries(file) ==
  IF file.kind = "json"
  THEN LoadResult(FALSE, WorktreeHistory(MakeMap, file.updated_at))
  ELSE LoadResult(file.kind # "absent", WorktreeHistory(MakeMap, ZeroTime))

LoadHistory(file) ==
  IF file.kind = "absent"
  THEN LoadResult(FALSE, WorktreeHistory(MakeMap, ZeroTime))
  ELSE IF file.kind # "json"
  THEN LoadResult(TRUE, NewHistory)
  ELSE LET history == Unmarshal(file)
       IN  IF history.RepoHistory.nil
           THEN LoadResult(FALSE, [history EXCEPT !.RepoHistory = MakeMap])
           ELSE LoadResult(FALSE, history)

\* os.WriteFile that fails: the file is as it was, or was truncated.
HistWriteFailures(old) == {old, EmptyFile}

\* h.Save(): what it can do to the history and the file.  MkdirAll may fail
\* before anything is touched; the timestamp is set before the write.
SaveOutcomes(hh, file) ==
  LET stamped == [hh EXCEPT !.UpdatedAt = Now]
  IN  {[ok |-> TRUE, history |-> stamped, file |-> Marshal(stamped)]}
      \cup {[ok |-> FALSE, history |-> hh, file |-> file]}
      \cup {[ok |-> FALSE, history |-> stamped, file |-> f] :
              f \in HistWriteFailures(file)}

\* Variant: Save writes the entries of the file it finds next to its own.
SavedFileMerged(o, file) ==
  IF o.ok /\ file.kind = "json"
  THEN [o.file EXCEPT !.repo_history.entries =
          [k \in (DOMAIN file.repo_history.entries)
                   \cup (DOMAIN o.file.repo_history.entries) |->
             IF k \in DOMAIN o.file.repo_history.entries
             THEN o.file.repo_history.entries[k]
             ELSE file.repo_history.entries[k]]]
  ELSE o.file

\* What os.WriteFile leaves at HistoryPath(): the whole document.
SavedFile(o, file) == o.file

----------------------------------------------------------------------------
\* Navigation: `worktree go` (cmd/worktree.go) and, recording visits in the
\* History Store, navigateToWorktree and goToPreviousWorktree.

\* Where a shell can stand: the root of a worktree, or outside the repository.
Outside == <<"tmp">>
Places == {ListWorktrees[i].path : i \in 1..Len(ListWorktrees)} \cup {Outside}

IsInsideWorkTree(dir) == dir # Outside

\* Variant: the key is the top level of the worktree the process stands in.
GetGitCommonDirPerWorktree(dir) == dir

\* The RepoIdentity: the common directory, the same from every worktree.
GetGitCommonDir(dir) == <<"repo", ".git">>

\* The invocation before this one in the same shell; before is the target
\* of the one before that, when it recorded a visit.
NoLast ==
  [cmd |-> "none", ok |-> FALSE, cwd |-> Outside, key |-> EmptyString,
   target |-> EmptyString, first |-> FALSE, before |-> EmptyString]

IdleNav ==
  [pc |-> "idle", cmd |-> "none", cwd |-> Outside, json |-> FALSE,
   helper |-> FALSE, target |-> EmptyString, key |-> EmptyString,
   hist |-> NewHistory, out |-> "none", result |-> "", saveFailed |-> FALSE,
   pre |-> NoFile, last |-> NoLast]

NavGoto(p, r, pc) == nav' = [nav EXCEPT ![p] = [r EXCEPT !.pc = pc]]

NavRet(p, r, code) ==
  nav' = [nav EXCEPT ![p] = [r EXCEPT !.pc = "done", !.result = code]]

\* What a navigation prints once it has its target: JSON under --json, the
\* line `cd <path>` in helper mode, a hint otherwise.
\* Variant: the helper line is printed even with --json.
EmitHelperFirst(json, helper) == IF helper THEN "cd" ELSE IF json THEN "json" ELSE "hint"

Emit(json, helper) == IF json THEN "json" ELSE IF helper THEN "cd" ELSE "hint"

\* runWorktreeGo, which only reads: the whole handler is one step.
RunWorktreeGo(p) ==
  /\ nav[p].pc = "idle"
  /\ LET wts == SecondaryWorktrees
     IN  \E json \in BOOLEAN, helper \in BOOLEAN, tty \in BOOLEAN,
            listed \in BOOLEAN, arg \in Names \cup {NoArg},
            pick \in {Base(wts[i].path) : i \in 1..Len(wts)} \cup {NoArg} :
           LET r == [nav[p] EXCEPT !.cmd = "go", !.cwd = pwd[p], !.json = json,
                                   !.helper = helper, !.pre = histFile]
               name == IF arg # NoArg THEN arg ELSE pick
               i == FindTarget(wts, name)
           IN  IF ~IsInsideWorkTree(pwd[p]) THEN NavRet(p, r, "NOT_GIT_REPO")
               ELSE IF ~listed THEN NavRet(p, r, "WORKTREE_LIST_ERROR")
               ELSE IF Len(wts) = 0 THEN NavRet(p, r, "NO_WORKTREES")
               ELSE IF arg = NoArg /\ ~(tty /\ ~json)
                    THEN NavRet(p, r, "NAME_REQUIRED")
               ELSE IF arg = NoArg /\ pick = NoArg THEN NavRet(p, r, "FORM_ERROR")
               ELSE IF i = 0 THEN NavRet(p, r, "WORKTREE_NOT_FOUND")
               ELSE NavRet(p, [r EXCEPT !.target = wts[i].path,
                                        !.out = Emit(json, helper)], "OK")
  /\ UNCHANGED <<restVars, histFile, histVars, pwd>>

\* navigateToWorktree(out, path) and goToPreviousWorktree(out) start.
NavStart(p) ==
  /\ nav[p].pc = "idle"
  /\ \E cmd \in {"navigate", "previous"}, json \in BOOLEAN, helper \in BOOLEAN,
        path \in Places \ {Outside} :
       NavGoto(p, [nav[p] EXCEPT !.cmd = cmd, !.cwd = pwd[p], !.json = json,
                                 !.helper = helper, !.pre = histFile,
                                 !.target = IF cmd = "navigate" THEN path
                                            ELSE EmptyString],
               "n_key")
  /\ UNCHANGED <<restVars, histFile, histVars, pwd>>

NavCommonDir(p) ==
  /\ nav[p].pc = "n_key"
  /\ IF IsInsideWorkTree(nav[p].cwd)
     THEN NavGoto(p, [nav[p] EXCEPT !.key = GetGitCommonDir(nav[p].cwd)], "n_load")
     ELSE NavRet(p, nav[p], "NOT_GIT_REPO")
  /\ UNCHANGED <<restVars, histFile, histVars, pwd>>

NavLoad(p) ==
  /\ nav[p].pc = "n_load"
  /\ LET res == LoadHistory(histFile)
     IN  IF res.err THEN NavRet(p, nav[p], "HISTORY_ERROR")
         ELSE NavGoto(p, [nav[p] EXCEPT !.hist = res.history], "n_record")
  /\ UNCHANGED <<restVars, histFile, histVars, pwd>>

\* GoPrevious takes GetPrevious as its target, or fails when it is empty;
\* then, on the first visit of the repository, the place the caller stands is
\* recorded before the target.
NavRecord(p) ==
  /\ nav[p].pc = "n_record"
  /\ LET r == nav[p]
         previous == GetPrevious(r.hist, r.key)
         target == IF r.cmd = "previous" THEN previous ELSE r.target
         first == GetCurrent(r.hist, r.key) = EmptyString
         origin_ == IF first THEN RecordVisit(r.hist, r.key, r.cwd) ELSE r.hist
     IN  IF r.cmd = "previous" /\ previous = EmptyString
         THEN NavRet(p, r, "NO_PREVIOUS")
         ELSE NavGoto(p, [r EXCEPT !.target = target,
                                   !.hist = RecordVisit(origin_, r.key, target)],
                      "n_save")
  /\ UNCHANGED <<restVars, histFile, histVars, pwd>>

NavSave(p) ==
  /\ nav[p].pc = "n_save"
  /\ \E o \in SaveOutcomes(nav[p].hist, histFile) :
       /\ histFile' = SavedFile(o, histFile)
       /\ IF o.ok THEN NavGoto(p, [nav[p] EXCEPT !.hist = o.history], "n_emit")
          ELSE NavRet(p, [nav[p] EXCEPT !.hist = o.history, !.saveFailed = TRUE],
                      "HISTORY_ERROR")
  /\ UNCHANGED <<restVars, histVars, pwd>>

NavEmit(p) ==
  /\ nav[p].pc = "n_emit"
  /\ NavRet(p, [nav[p] EXCEPT !.out = Emit(nav[p].json, nav[p].helper)], "OK")
  /\ UNCHANGED <<restVars, histFile, histVars, pwd>>

\* The command ends; the shell function evaluates a `cd <path>` line.
NavExit(p) ==
  /\ nav[p].pc = "done"
  /\ pwd' = [pwd EXCEPT ![p] = IF nav[p].out = "cd" THEN nav[p].target ELSE @]
  /\ nav' = [nav EXCEPT ![p] =
       [IdleNav EXCEPT !.last =
          [cmd |-> nav[p].cmd, ok |-> nav[p].result = "OK", cwd |-> nav[p].cwd,
           key |-> nav[p].key, target |-> nav[p].target,
           first |-> GetCurrent(LoadHistory(nav[p].pre).history, nav[p].key)
                       = EmptyString,
           before |-> IF nav[p].last.ok /\ nav[p].last.cmd # "go"
                      THEN nav[p].last.target ELSE EmptyString]]]
  /\ UNCHANGED <<restVars, histFile, histVars>>

\* The user changes directory by hand.
UserCd(p) ==
  /\ nav[p].pc = "idle"
  /\ \E dir \in Places : dir # pwd[p] /\ pwd' = [pwd EXCEPT ![p] = dir]
  /\ UNCHANGED <<restVars, histFile, histVars, nav>>

\* A program that uses the store, as the tests and the commands do: it
\* starts from &WorktreeHistory{} or from LoadHistory(), records visits,
\* saves, and may load again what it saved.
MaxCalls == 3
MaxRaceCalls == 1
RacePaths == {<<"a">>, <<"b">>}

Call(repoRoot, worktreePath) == [repo |-> repoRoot, path |-> worktreePath]

HistNew(p) ==
  /\ hpc[p] = "new"
  /\ h' = [h EXCEPT ![p] = NewHistory]
  /\ hpc' = [hpc EXCEPT ![p] = "build"]
  /\ UNCHANGED <<restVars, histFile, calls, loaded, navVars>>

HistLoad(p) ==
  /\ hpc[p] = "new"
  /\ LET res == LoadHistory(histFile)
     IN  IF res.err
         THEN /\ hpc' = [hpc EXCEPT ![p] = "load_failed"]
              /\ h' = h
         ELSE /\ hpc' = [hpc EXCEPT ![p] = "build"]
              /\ h' = [h EXCEPT ![p] = res.history]
  /\ UNCHANGED <<restVars, histFile, calls, loaded, navVars>>

RecordVisitStep(p, paths, max) ==
  /\ hpc[p] = "build"
  /\ Len(calls[p]) < max
  /\ \E repoRoot \in HistRepos, worktreePath \in paths :
       /\ h' = [h EXCEPT ![p] = RecordVisit(h[p], repoRoot, worktreePath)]
       /\ calls' = [calls EXCEPT ![p] = Append(@, Call(repoRoot, worktreePath))]
  /\ UNCHANGED <<restVars, histFile, loaded, hpc, navVars>>

HistRecordVisit(p) == RecordVisitStep(p, HistPaths, MaxCalls)

RaceRecordVisit(p) == RecordVisitStep(p, RacePaths, MaxRaceCalls)

\* h.Save().  A process whose Save was the last write of the file is
\* "saved"; a later write by another process makes it "overwritten".
HistSave(p) ==
  /\ hpc[p] = "build"
  /\ \E o \in SaveOutcomes(h[p], histFile) :
       /\ h' = [h EXCEPT ![p] = o.history]
       /\ histFile' = SavedFile(o, histFile)
       /\ hpc' = [q \in Procs |->
                    IF q = p THEN (IF o.ok THEN "saved" ELSE "save_failed")
                    ELSE IF hpc[q] \in {"saved", "loaded"}
                              /\ histFile' # histFile
                         THEN "overwritten"
                         ELSE hpc[q]]
  /\ UNCHANGED <<restVars, calls, loaded, navVars>>

\* LoadHistory() after the Save.
HistReload(p) ==
  /\ hpc[p] = "saved"
  /\ loaded' = [loaded EXCEPT ![p] = LoadHistory(histFile)]
  /\ hpc' = [hpc EXCEPT ![p] = "loaded"]
  /\ UNCHANGED <<restVars, histFile, h, calls, navVars>>

\* The program ends; file is what it leaves at HistoryPath() (a test's
\* temporary HOME goes away with it).
HistEnd(p, file) ==
  /\ hpc[p] \in {"saved", "loaded", "save_failed", "load_failed", "overwritten"}
  /\ h' = [h EXCEPT ![p] = NewHistory]
  /\ calls' = [calls EXCEPT ![p] = <<>>]
  /\ loaded' = [loaded EXCEPT ![p] = NoLoad]
  /\ hpc' = [hpc EXCEPT ![p] = "new"]
  /\ histFile' = file
  /\ UNCHANGED <<restVars, navVars>>

----------------------------------------------------------------------------
\* Configuration, `worktree add`, `worktree go` on the live worktree list,
\* and the shell function that wraps the tool.

MaxWorktrees == 3

\* Config.GetWorktreeDir
GetWorktreeDir(dir) == IF dir = "" THEN ".worktrees" ELSE dir

\* Values of worktree_dir, and the names given to `worktree add`: both in
\* the order of their bytes, the order git lists linked worktrees in.
WorktreeDirs == <<".worktrees", "wt">>
NewNames == <<"bugfix-login", "feature-auth", "login">>

Range(seq) == {seq[i] : i \in 1..Len(seq)}
Rank(seq, x) == CHOOSE i \in 1..Len(seq) : seq[i] = x

\* A name of two lines, the second one being `cd y`.
NewlineName == "x\\ncd y"
Tokens == Range(NewNames) \cup {"c", "auth", "feat", "sub", NewlineName}

\* Branches made with git itself before any worktree is added.
ExistingBranches == {"main", "feature-auth", "c"}

\* The primary checkout of the repositories the shell may stand in: an
\* ordinary one, and one that lives below a directory named .worktrees
\* (a repository nested in a secondary worktree of another), and one in a
\* directory with a space in its name.
SpacedName == "my repo"
PrimaryPaths == {<<"repo">>, <<"repo", ".worktrees", "feat", "sub">>, <<SpacedName>>}

FreshRepo(root) == <<Worktree(root, "main", FALSE)>>

\* The order of two linked worktrees <root>/<dir>/<name> of one repository.
PathBefore(p, q) ==
  LET n == Len(p)
  IN  \/ Rank(WorktreeDirs, p[n - 1]) < Rank(WorktreeDirs, q[n - 1])
      \/ /\ p[n - 1] = q[n - 1]
         /\ Rank(NewNames, p[n]) < Rank(NewNames, q[n])

\* git worktree list after git worktree add: the main worktree first, the
\* linked ones by path.
ListAfterAdd(wts, wt) ==
  LET k == Cardinality({i \in 2..Len(wts) : PathBefore(wts[i].path, wt.path)})
  IN  SubSeq(wts, 1, k + 1) \o <<wt>> \o SubSeq(wts, k + 2, Len(wts))

\* git show-ref --verify refs/heads/<b>
BranchExists(b) == b \in branches

\* The filter loop of runWorktreeGo on a given list.
SecondaryOf(wts) == SelectSeq(wts, IsSecondary)

\* Output: a text is a sequence of lines, a line is what it starts with
\* (pre) and the pieces that follow it.
Line(pre, body) == [pre |-> pre, body |-> body]
Cross == "\\u2717 "
Check == "\\u2713 "
InfoMark == "\\u2139 "
CdPrefix == "cd "

NameLines(name) ==
  IF name = NewlineName THEN <<Line("", <<"x">>), Line(CdPrefix, <<"y">>)>>
  ELSE <<Line("", <<name>>)>>

\* pre, before, the name and after, printed with Fprintln.
Embed(pre, before, name, after) ==
  LET nl == NameLines(name)
      n == Len(nl)
  IN  [i \in 1..n |->
         Line(IF i = 1 THEN pre ELSE nl[i].pre,
              (IF i = 1 THEN <<before>> ELSE <<>>) \o nl[i].body
                \o (IF i = n THEN <<after>> ELSE <<>>))]

\* Output.JSON: an indented object, strings escaped.
JSON(what) == <<Line("{", <<>>), Line("  ", <<what>>), Line("}", <<>>)>>

\* The text of err for each code: before the name and after it.
Message(code) ==
  CASE code = "NOT_GIT_REPO" -> <<"not inside a git repository", "">>
    [] code = "WORKTREE_LIST_ERROR" -> <<"git worktree list failed", "">>
    [] code = "NO_WORKTREES" -> <<"no worktrees found. Create one with: lazywork worktree add <name>", "">>
    [] code = "NAME_REQUIRED" -> <<"name required", "">>
    [] code = "WORKTREE_NOT_FOUND" -> <<"worktree '", "' not found">>
    [] code = "CONFIG_LOAD_ERROR" -> <<"cannot load the configuration", "">>
    [] code = "EMPTY_NAME" -> <<"branch name cannot be empty", "">>
    [] code = "BRANCH_EXISTS" -> <<"branch '", "' already exists. Use --branch to checkout existing branch">>
    [] code = "BRANCH_NOT_FOUND" -> <<"branch '", "' does not exist">>
    [] code = "WORKTREE_REMOVE_ERROR" -> <<"git worktree remove failed", "">>
    [] code = "INVALID_PROVIDER" -> <<"unknown provider '", "'. Valid providers: anthropic, openai">>
    [] code = "INVALID_KEY" -> <<"unknown config key '", "'. Supported keys: default_provider, worktree_dir">>
    [] code = "CONFIG_SAVE_ERROR" -> <<"cannot save the configuration", "">>
    [] OTHER -> <<"git worktree add failed", "">>

NamedIn(code) ==
  code \in {"WORKTREE_NOT_FOUND", "BRANCH_EXISTS", "BRANCH_NOT_FOUND",
            "INVALID_PROVIDER", "INVALID_KEY"}

\* Output.ErrorResult; a form's error is returned without a word.
ErrorResult(json, code, name) ==
  IF code = "FORM_ERROR" THEN <<>>
  ELSE IF json THEN JSON(code)
  ELSE Embed(Cross, Message(code)[1], IF NamedIn(code) THEN name ELSE "",
             Message(code)[2])

\* What runWorktreeGo prints after it found targetPath.
GoOutput(json, helper, target) ==
  CASE Emit(json, helper) = "json" -> JSON("path, cd")
    [] Emit(json, helper) = "cd" -> <<Line(CdPrefix, target)>>
    [] OTHER -> <<Line(InfoMark, <<"Run: cd ", ToString(target)>>),
                  Line("", <<"Tip: Use 'lwt go' with shell integration for automatic cd">>),
                  Line("", <<"Setup: eval \"$(lazywork shell init)\"">>)>>

\* What runWorktreeAdd prints after git worktree add.
AddOutput(json, name, branch, path) ==
  IF json THEN JSON("path, branch, created")
  ELSE <<Line(Check, <<"Created worktree: ", name>>),
         Line("", <<"  branch: ", branch>>),
         Line("", <<"  path:   ", ToString(path)>>),
         Line("", <<>>),
         Line(InfoMark, <<CdPrefix, ToString(path)>>)>>

\* How the command line is typed: the tool itself, the tool with the hidden
\* --shell-helper, or the shell function of one of the dialects.
Shells == {"bash", "zsh", "fish"}
Modes == {"direct", "helper"} \cup Shells
ShellHelper(mode) == mode # "direct"

\* eval $output of fish: the lines are joined by one space.
RECURSIVE JoinLines(_)
JoinLines(out) ==
  IF Len(out) = 1 THEN out[1]
  ELSE LET rest == JoinLines(Tail(out))
       IN  Line(out[1].pre, out[1].body \o <<" ", rest.pre>> \o rest.body)

\* The glob `cd *` on one string.
MatchesCd(line) == line.pre = CdPrefix

\* string match -q 'cd *' -- $output: $output is the list of the lines.
FishMatches(out) == \E i \in 1..Len(out) : MatchesCd(out[i])

NoWrap == [did |-> "none", text |-> <<>>, code |-> 0]

\* eval of one line `cd <text>`, the text not quoted: the shell splits it at
\* the spaces, and cd with more than one argument fails and stays where it
\* is; with one argument it goes there.
EvalCd(line, cwd) ==
  IF \E i \in 1..Len(line.body) : line.body[i] = SpacedName
  THEN [cwd |-> cwd, code |-> 1]
  ELSE [cwd |-> line.body, code |-> 0]

\* __lazywork_exec on what the child printed (stdout and stderr together)
\* and its exit status.  Evaluating one line `cd <path>` gives the status
\* of cd, anything else evaluated is not a command (127).
LazyworkExec(mode, out, status) ==
  IF mode \notin Shells THEN NoWrap
  ELSE LET fish == mode = "fish"
           matches == IF fish THEN FishMatches(out)
                      ELSE out # <<>> /\ MatchesCd(out[1])
           text == IF fish THEN <<JoinLines(out)>> ELSE out
       IN  IF matches
           THEN [did |-> "eval", text |-> text,
                 code |-> IF Len(text) = 1 /\ MatchesCd(text[1])
                          THEN EvalCd(text[1], <<>>).code ELSE 127]
           ELSE [did |-> "print", text |-> out, code |-> status]

\* How a name reaches a handler: args[0]; or no argument, and then the form
\* when stdin is a terminal, which gives an answer or is aborted (NoArg).
NameInputs(args, answers) ==
  [arg : args, tty : {FALSE}, form : {NoArg}]
    \cup [arg : {NoArg}, tty : {FALSE}, form : {NoArg}]
    \cup [arg : {NoArg}, tty : {TRUE}, form : answers \cup {NoArg}]

\* The exit status of the process: 0, or a non-zero one after an error.
ExitStatus(result) == IF result = "OK" THEN {0} ELSE {1, 2}

NoRes ==
  [cmd |-> "none", mode |-> "direct", json |-> FALSE, name |-> NoArg,
   cands |-> <<>>, target |-> <<>>, result |-> "", out |-> <<>>, status |-> 0,
   wrap |-> NoWrap]

\* The command ran: what it printed, its exit status, what the shell
\* function made of it, and where the shell stands afterwards.
Typed(p, r, result, out, status) ==
  LET wrap == LazyworkExec(r.mode, out, status)
  IN  /\ ran' = [r EXCEPT !.result = result, !.out = out, !.status = status,
                          !.wrap = wrap]
      /\ pwd' = [pwd EXCEPT ![p] =
                   IF wrap.did = "eval" /\ Len(wrap.text) = 1 /\ MatchesCd(wrap.text[1])
                   THEN EvalCd(wrap.text[1], @).cwd ELSE @]

\* The shell is back at its prompt.
ShellPrompt ==
  /\ ran # NoRes
  /\ ran' = NoRes
  /\ UNCHANGED <<useVars, histFile, histVars, navVars, cfgDir, wtList, fin, extVars>>

\* The configuration (package config).  A string that may start with '$'
\* is the sequence of its pieces.
ProviderNames == {"anthropic", "openai"}
EnvName(n) == IF n = "openai" THEN "OPENAI_API_KEY" ELSE "ANTHROPIC_API_KEY"
EnvRef(n) == <<"$", EnvName(n)>>
Secret == "sk-live"

\* os.Getenv in the environment of one command: each variable is set to a
\* key or is not set.
Envs == [{EnvName(n) : n \in ProviderNames} -> {<<>>, <<Secret>>}]
NoEnv == [v \in {EnvName(n) : n \in ProviderNames} |-> <<>>]

Provider(type, apiKey) == [Type |-> type, APIKey |-> apiKey]

Config(defaultProvider, worktreeDir, providers) ==
  [DefaultProvider |-> defaultProvider, WorktreeDir |-> worktreeDir,
   Providers |-> providers]

getDefaultConfig ==
  Config("anthropic", "", [n \in ProviderNames |-> Provider(n, EnvRef(n))])

\* The file but for worktree_dir: absent, or the JSON object.  A field
\* marked omitempty that holds the empty string is not written, and reads
\* back as the empty string.
NoConfigFile ==
  [exists |-> FALSE, default_provider |-> "",
   providers |-> [n \in ProviderNames |-> [type |-> "", api_key |-> <<>>]]]

resolveEnvironmentVariables(cfg, env) ==
  [cfg EXCEPT !.Providers =
     [n \in DOMAIN @ |->
        IF Len(@[n].APIKey) > 0 /\ @[n].APIKey[1] = "$"
        THEN Provider(@[n].Type, env[@[n].APIKey[2]])
        ELSE @[n]]]

\* config.LoadFrom: the defaults when there is no file, else the file with
\* the references to the environment replaced by their values.
LoadFrom(file, dir, env, readable) ==
  IF ~file.exists THEN [err |-> FALSE, cfg |-> getDefaultConfig]
  ELSE IF ~readable THEN [err |-> TRUE, cfg |-> getDefaultConfig]
  ELSE [err |-> FALSE,
        cfg |-> resolveEnvironmentVariables(
                  Config(file.default_provider, dir,
                         [n \in ProviderNames |->
                            Provider(file.providers[n].type, file.providers[n].api_key)]),
                  env)]

\* Config.SaveTo: the file written from cfg, worktree_dir apart.
SaveTo(cfg) ==
  [exists |-> TRUE, default_provider |-> cfg.DefaultProvider,
   providers |-> [n \in ProviderNames |->
                    [type |-> cfg.Providers[n].Type, api_key |-> cfg.Providers[n].APIKey]]]

\* Keys and values given to `config set`.
ConfigKeys == {"default_provider", "worktree_dir", "Worktree_Dir", "api_key"}
ConfigValues == {"", "wt", "openai", "gemini"}
ToLower(key) == IF key = "Worktree_Dir" THEN "worktree_dir" ELSE key

SetOutput(json, key, value) ==
  IF json THEN JSON("key, value, updated")
  ELSE <<Line(Check, <<"Set ", key, " = ", value>>)>>

\* `lazywork config set <key> <value>`
TypeConfigSet(p, keys, values, envs) ==
  /\ ran = NoRes
  /\ \E mode \in Modes, json \in BOOLEAN, key \in keys, value \in values,
        env \in envs, readable \in BOOLEAN, written \in BOOLEAN :
       LET r == [NoRes EXCEPT !.cmd = "config set", !.mode = mode, !.json = json,
                              !.name = key, !.target = <<value>>]
           got == LoadFrom(configFile, cfgDir, env, readable)
           cfg == got.cfg
           code == IF got.err THEN "CONFIG_LOAD_ERROR"
                   ELSE IF ToLower(key) = "default_provider"
                   THEN (IF value \notin DOMAIN cfg.Providers THEN "INVALID_PROVIDER"
                         ELSE IF ~written THEN "CONFIG_SAVE_ERROR" ELSE "OK")
                   ELSE IF ToLower(key) = "worktree_dir"
                   THEN (IF ~written THEN "CONFIG_SAVE_ERROR" ELSE "OK")
                   ELSE "INVALID_KEY"
           set == IF ToLower(key) = "default_provider"
                  THEN [cfg EXCEPT !.DefaultProvider = value]
                  ELSE [cfg EXCEPT !.WorktreeDir = value]
       IN  /\ configFile' = IF code = "OK" THEN SaveTo(set) ELSE configFile
           /\ cfgDir' = IF code = "OK" THEN set.WorktreeDir ELSE cfgDir
           /\ \E status \in ExitStatus(code) :
                Typed(p, r, code,
                      IF code = "OK" THEN SetOutput(json, key, value)
                      ELSE ErrorResult(json, code, IF code = "INVALID_KEY" THEN key ELSE value),
                      status)
  /\ UNCHANGED <<useVars, histFile, histVars, nav, wtList, fin, storeCalls, sel, branches>>

\* `lazywork config set worktree_dir <value>`, no key set in the
\* environment
ConfigSet == TypeConfigSet("p1", {"worktree_dir"}, {"", "wt"}, {NoEnv})

\* The user goes to another repository, a fresh clone.
UserOpensRepo(p) ==
  /\ ran = NoRes
  /\ \E root \in PrimaryPaths :
       /\ wtList # FreshRepo(root)
       /\ wtList' = FreshRepo(root)
       /\ branches' = ExistingBranches
       /\ pwd' = [pwd EXCEPT ![p] = root]
  /\ UNCHANGED <<useVars, histFile, histVars, nav, cfgDir, ran, fin, storeCalls, sel, configFile>>

\* The user goes back to the primary checkout.
UserCdPrimary(p) ==
  /\ ran = NoRes
  /\ pwd[p] # wtList[1].path
  /\ pwd' = [pwd EXCEPT ![p] = wtList[1].path]
  /\ UNCHANGED <<useVars, histFile, histVars, nav, resVars, fin, extVars>>

\* `[lw] worktree add [name] [--branch b]`, typed in the primary checkout.
TypeWorktreeAdd(p) ==
  /\ ran = NoRes
  /\ pwd[p] = wtList[1].path
  /\ Len(wtList) < MaxWorktrees
  /\ \E mode \in Modes, json \in BOOLEAN, cfgOk \in BOOLEAN,
        in \in NameInputs(Range(NewNames), {"bugfix-login", ""}),
        fromBranch \in {"", "feature-auth", "c"} :
       LET arg == in.arg
           name == IF arg # NoArg THEN arg ELSE in.form
           path == wtList[1].path \o <<GetWorktreeDir(cfgDir), name>>
           branch == IF fromBranch # "" THEN fromBranch ELSE name
           taken == \E i \in 1..Len(wtList) :
                      wtList[i].path = path \/ wtList[i].branch = branch
           code == IF ~cfgOk THEN "CONFIG_LOAD_ERROR"
                   ELSE IF arg = NoArg /\ ~(in.tty /\ ~json) THEN "NAME_REQUIRED"
                   ELSE IF name = NoArg THEN "FORM_ERROR"
                   ELSE IF name = "" THEN "EMPTY_NAME"
                   ELSE IF fromBranch # "" /\ ~BranchExists(fromBranch)
                        THEN "BRANCH_NOT_FOUND"
                   ELSE IF fromBranch = "" /\ BranchExists(name)
                        THEN "BRANCH_EXISTS"
                   ELSE IF taken THEN "WORKTREE_ADD_ERROR"
                   ELSE "OK"
           r == [NoRes EXCEPT !.cmd = "add", !.mode = mode, !.json = json,
                              !.name = name,
                              !.target = IF code = "OK" THEN path ELSE <<>>]
       IN  /\ wtList' = IF code = "OK"
                        THEN ListAfterAdd(wtList, Worktree(path, branch, FALSE))
                        ELSE wtList
           /\ branches' = IF code = "OK" THEN branches \cup {branch} ELSE branches
           /\ \E status \in ExitStatus(code) :
                Typed(p, r, code,
                      IF code = "OK" THEN AddOutput(json, name, branch, path)
                      ELSE ErrorResult(json, code,
                                       IF code = "BRANCH_NOT_FOUND" THEN fromBranch
                                       ELSE name),
                      status)
  /\ UNCHANGED <<useVars, histFile, histVars, nav, cfgDir, fin, storeCalls, sel, configFile>>

\* `[lw] worktree go [name]`: runWorktreeGo on the live list, and the shell
\* function around it.
TypeWorktreeGo(p) ==
  /\ ran = NoRes
  /\ LET wts == SecondaryOf(wtList)
     IN  \E mode \in Modes, json \in BOOLEAN, listed \in BOOLEAN,
            in \in NameInputs(Tokens, {Base(wts[i].path) : i \in 1..Len(wts)}) :
           LET arg == in.arg
               name == IF arg # NoArg THEN arg ELSE in.form
               i == FindTarget(wts, name)
               code == IF ~IsInsideWorkTree(pwd[p]) THEN "NOT_GIT_REPO"
                       ELSE IF ~listed THEN "WORKTREE_LIST_ERROR"
                       ELSE IF Len(wts) = 0 THEN "NO_WORKTREES"
                       ELSE IF arg = NoArg /\ ~(in.tty /\ ~json) THEN "NAME_REQUIRED"
                       ELSE IF name = NoArg THEN "FORM_ERROR"
                       ELSE IF i = 0 THEN "WORKTREE_NOT_FOUND"
                       ELSE "OK"
               looked == code \in {"WORKTREE_NOT_FOUND", "OK"}
               r == [NoRes EXCEPT !.cmd = "go", !.mode = mode, !.json = json,
                                  !.name = IF looked THEN name ELSE NoArg,
                                  !.cands = IF listed THEN wts ELSE <<>>,
                                  !.target = IF code = "OK" THEN wts[i].path
                                             ELSE <<>>]
           IN  \E status \in ExitStatus(code) :
                 Typed(p, r, code,
                       IF code = "OK" THEN GoOutput(json, ShellHelper(mode), r.target)
                       ELSE ErrorResult(json, code, name),
                       status)
  /\ UNCHANGED <<useVars, histFile, histVars, nav, cfgDir, wtList, fin, extVars>>

\* The pieces of a name around its dashes.
Pieces(name) ==
  CASE name = "feature-auth" -> <<"feature", "-", "auth">>
    [] name = "bugfix-login" -> <<"bugfix", "-", "login">>
    [] OTHER -> <<name>>

\* The glob *-<token> on a last path segment.
SuffixGlob(token, base) ==
  LET b == Pieces(base)
      t == <<"-">> \o Pieces(token)
  IN  Len(b) >= Len(t) /\ SubSeq(b, Len(b) - Len(t) + 1, Len(b)) = t

\* The loop of runWorktreeRemove: the name is the last path segment or the
\* whole path of the worktree, or the last path segment matches *-<name>.
\* A name is a path: one segment, or the segments of a full path.
RemoveMatches(wt, name) ==
  \/ <<Base(wt.path)>> = name
  \/ wt.path = name
  \/ Len(name) = 1 /\ SuffixGlob(name[1], Base(wt.path))

\* The first worktree of the list the loop stops at; 0 when there is none.
FindRemoveTarget(wts, name) ==
  IF \E i \in 1..Len(wts) : RemoveMatches(wts[i], name)
  THEN CHOOSE i \in 1..Len(wts) :
         /\ RemoveMatches(wts[i], name)
         /\ \A j \in 1..(i - 1) : ~RemoveMatches(wts[j], name)
  ELSE 0

\* What runWorktreeRemove prints after git worktree remove.
RemoveOutput(json, path) ==
  IF json THEN JSON("path, removed")
  ELSE <<Line(Check, <<"Removed worktree: ", Base(path)>>)>>

\* `[lw] worktree remove <name>`: runWorktreeRemove on the whole list.  git
\* never removes the main worktree, and may refuse another one (changes in
\* it, no --force).  The branch of the removed worktree stays; a shell that
\* stood in it stands in no repository afterwards.
TypeWorktreeRemove(p) ==
  /\ ran = NoRes
  /\ \E mode \in Modes, json \in BOOLEAN, listed \in BOOLEAN, removed \in BOOLEAN,
        arg \in {<<t>> : t \in Tokens} \cup {wtList[i].path : i \in 1..Len(wtList)} :
       LET i == FindRemoveTarget(wtList, arg)
           code == IF ~IsInsideWorkTree(pwd[p]) THEN "NOT_GIT_REPO"
                   ELSE IF ~listed THEN "WORKTREE_LIST_ERROR"
                   ELSE IF i = 0 THEN "WORKTREE_NOT_FOUND"
                   ELSE IF i = 1 \/ ~removed THEN "WORKTREE_REMOVE_ERROR"
                   ELSE "OK"
           looked == code \in {"WORKTREE_NOT_FOUND", "WORKTREE_REMOVE_ERROR", "OK"}
           shown == IF Len(arg) = 1 THEN arg[1] ELSE ToString(arg)
           r == [NoRes EXCEPT !.cmd = "remove", !.mode = mode, !.json = json,
                              !.name = IF looked THEN Base(arg) ELSE NoArg,
                              !.cands = IF looked THEN wtList ELSE <<>>,
                              !.target = IF looked /\ i > 0 THEN wtList[i].path
                                         ELSE <<>>]
       IN  /\ wtList' = IF code = "OK"
                        THEN SubSeq(wtList, 1, i - 1) \o SubSeq(wtList, i + 1, Len(wtList))
                        ELSE wtList
           /\ \E status \in ExitStatus(code) :
                LET wrap == LazyworkExec(mode, IF code = "OK" THEN RemoveOutput(json, r.target)
                                               ELSE ErrorResult(json, code, shown), status)
                IN  /\ ran' = [r EXCEPT !.result = code, !.status = status, !.wrap = wrap,
                                        !.out = IF code = "OK" THEN RemoveOutput(json, r.target)
                                                ELSE ErrorResult(json, code, shown)]
                    /\ pwd' = [pwd EXCEPT ![p] =
                                 IF code = "OK" /\ @ = r.target THEN Outside ELSE @]
  /\ UNCHANGED <<useVars, histFile, histVars, nav, cfgDir, fin, extVars>>

----------------------------------------------------------------------------
\* runWorktreeFinish.

NoFin == [merged |-> {}, merging |-> FALSE, removed |-> {}, deleted |-> {}]

FinSnapshot == [repo |-> Snapshot, fin |-> fin]

\* git worktree list once Finish has removed worktrees.
LiveWorktrees == SelectSeq(ListWorktrees, LAMBDA wt : wt.path \notin fin.removed)

\* Variant: whatever branch is checked out counts as the main branch.
GetMainBranchIsCurrent == head

\* GetMainBranch: "main" when that branch exists, "master" otherwise.
GetMainBranch == IF "main" \in Branches THEN "main" ELSE "master"

\* The worktree the resolution loop stopped at, by its branch.
TargetPath(r) ==
  LET wts == SelectSeq(LiveWorktrees, IsSecondary)
  IN  wts[CHOOSE i \in 1..Len(wts) : wts[i].branch = r.target].path

FinishStart(p) ==
  /\ inv[p].pc = "idle"
  /\ \E cwd \in {"outside", "main", "secondary"}, tty \in BOOLEAN, json \in BOOLEAN :
       LET r == [IdleInv EXCEPT !.cmd = "finish", !.cwd = cwd, !.tty = tty,
                                !.json = json, !.pre = FinSnapshot]
       IN  IF cwd = "outside" THEN Ret(p, r, "NOT_GIT_REPO")
           ELSE IF cwd = "secondary" THEN Ret(p, r, "NOT_MAIN_WORKTREE")
           ELSE Goto(p, r, "f_branch")
  /\ UNCHANGED <<repoVars, fileVars, logVars, sideVars, fin, extVars>>

FinishCurrentBranch(p) ==
  /\ inv[p].pc = "f_branch"
  /\ \E ok \in BOOLEAN :
       IF ~ok THEN Ret(p, inv[p], "BRANCH_ERROR")
       ELSE IF head # GetMainBranch
            THEN Ret(p, [inv[p] EXCEPT !.cur = head], "NOT_MAIN_BRANCH")
       ELSE Goto(p, [inv[p] EXCEPT !.cur = head], "f_dirty")
  /\ UNCHANGED <<repoVars, fileVars, logVars, sideVars, fin, extVars>>

\* git status --porcelain also lists the paths of a merge left in conflict.
FinishHasUncommitted(p) ==
  /\ inv[p].pc = "f_dirty"
  /\ IF HasUncommittedChanges \/ fin.merging
     THEN Ret(p, inv[p], "UNCOMMITTED_CHANGES")
     ELSE Goto(p, inv[p], "f_resolve")
  /\ UNCHANGED <<repoVars, fileVars, logVars, sideVars, fin, extVars>>

FinishResolve(p) ==
  /\ inv[p].pc = "f_resolve"
  /\ LET wts == SelectSeq(LiveWorktrees, IsSecondary)
     IN  \E listed \in BOOLEAN, arg \in Names \cup {NoArg},
            pick \in {Base(wts[i].path) : i \in 1..Len(wts)} \cup {NoArg} :
           LET r == [inv[p] EXCEPT !.arg = arg]
           IN  IF ~listed THEN Ret(p, inv[p], "WORKTREE_LIST_ERROR")
               ELSE IF Len(wts) = 0 THEN Ret(p, inv[p], "NO_WORKTREES")
               ELSE IF arg = NoArg /\ ~IsTTY(r) THEN Ret(p, r, "NAME_REQUIRED")
               ELSE IF arg = NoArg /\ pick = NoArg THEN Ret(p, r, "FORM_ERROR")
               ELSE LET name == IF arg # NoArg THEN arg ELSE pick
                        i == FindTarget(wts, name)
                    IN  IF i = 0 THEN Ret(p, r, "WORKTREE_NOT_FOUND")
                        ELSE IF wts[i].branch = "" THEN Ret(p, r, "DETACHED_HEAD")
                        ELSE Goto(p, [r EXCEPT !.target = wts[i].branch], "f_merge")
  /\ UNCHANGED <<repoVars, fileVars, logVars, sideVars, fin, extVars>>

\* Variant: a failed merge does not stop Finish.
AfterMergeGoesOn(ok) == "f_confirm"

AfterMerge(ok) == IF ok THEN "f_confirm" ELSE "done"

\* git merge <branch>: it merges, or it fails and leaves the merge open.
\* The error is returned without a code; the result is named MERGE_FAILED.
FinishMerge(p) ==
  /\ inv[p].pc = "f_merge"
  /\ \E ok \in BOOLEAN :
       LET r == Did(inv[p], IF ok THEN "merge" ELSE "merge_failed")
       IN  /\ fin' = IF ok THEN [fin EXCEPT !.merged = @ \cup {r.target}]
                     ELSE [fin EXCEPT !.merging = TRUE]
           /\ IF AfterMerge(ok) = "done" THEN Ret(p, r, "MERGE_FAILED")
              ELSE Goto(p, r, AfterMerge(ok))
  /\ UNCHANGED <<repoVars, fileVars, logVars, sideVars, extVars>>

\* CleanupConfirmForm on a terminal, then the JSON result, then the cleanup
\* when it was accepted.
FinishConfirm(p) ==
  /\ inv[p].pc = "f_confirm"
  /\ \E answer \in {"prompt:yes", "prompt:no", "prompt:abort"} :
       LET asked == IsTTY(inv[p])
           r == IF asked THEN Did(inv[p], answer) ELSE inv[p]
       IN  IF asked /\ answer = "prompt:abort" THEN Ret(p, r, "FORM_ERROR")
           ELSE IF r.json THEN Ret(p, r, "OK")
           ELSE IF asked /\ answer = "prompt:yes" THEN Goto(p, r, "f_remove")
           ELSE Ret(p, r, "OK")
  /\ UNCHANGED <<repoVars, fileVars, logVars, sideVars, fin, extVars>>

\* Variant: a worktree that cannot be removed ends the cleanup.
AfterRemoveGivesUp(ok) == IF ok THEN "f_delete" ELSE "done"

AfterRemove(ok) == "f_delete"

\* git worktree remove <path>
FinishRemoveWorktree(p) ==
  /\ inv[p].pc = "f_remove"
  /\ \E ok \in BOOLEAN :
       LET r == IF ok THEN Did(inv[p], "remove")
                ELSE [Did(inv[p], "remove_failed") EXCEPT !.warn = @ \cup {"remove"}]
       IN  /\ fin' = IF ok THEN [fin EXCEPT !.removed = @ \cup {TargetPath(r)}]
                     ELSE fin
           /\ IF AfterRemove(ok) = "done" THEN Ret(p, r, "OK")
              ELSE Goto(p, r, AfterRemove(ok))
  /\ UNCHANGED <<repoVars, fileVars, logVars, sideVars, extVars>>

\* git branch -d <branch>: refused while a worktree has the branch checked
\* out, and it may fail otherwise.
FinishDeleteBranch(p) ==
  /\ inv[p].pc = "f_delete"
  /\ \E ok \in BOOLEAN :
       /\ "remove_failed" \in inv[p].did => ~ok
       /\ LET r == IF ok THEN Did(inv[p], "delete")
                   ELSE [Did(inv[p], "delete_failed") EXCEPT !.warn = @ \cup {"delete"}]
          IN  /\ fin' = IF ok THEN [fin EXCEPT !.deleted = @ \cup {r.target}]
                        ELSE fin
              /\ Ret(p, r, "OK")
  /\ UNCHANGED <<repoVars, fileVars, logVars, sideVars, extVars>>

\* The user ends an open merge: commits it, or gives it up.
UserEndsMerge ==
  /\ fin.merging
  /\ fin' = [fin EXCEPT !.merging = FALSE]
  /\ UNCHANGED <<useVars, sideVars, extVars>>

\* The user makes the worktree and its branch again.
UserAddsAgain ==
  /\ fin.removed # {}
  /\ fin' = [fin EXCEPT !.removed = {}, !.deleted = {}]
  /\ UNCHANGED <<useVars, sideVars, extVars>>

\* What a handler that returns an error has printed for it. Every error
\* return goes through out.ErrorResult with its code, but for two: a form's
\* error, and the failed merge of Finish, which is reported with out.Error
\* (a line on standard error, with or without --json), an empty line and
\* out.Info (nothing with --json).
ErrorExit(r) ==
  IF r.result = "MERGE_FAILED"
  THEN <<Line(Cross, <<"Merge failed: ", r.target>>), Line("", <<>>)>>
         \o (IF r.json THEN <<>>
             ELSE <<Line(InfoMark, <<"Resolve conflicts and run 'git commit', then try again">>)>>)
  ELSE ErrorResult(r.json, r.result, r.arg)

----------------------------------------------------------------------------
\* The session store called on its own (git.go: SaveUseState, LoadUseState,
\* ClearUseState), on a .git directory that can be written.

MaxStoreCalls == 3
StoreBranches == {"main", "feat"}
StoreStashRefs == {"", "stash@{0}", "stash@{1}"}

StoreCall(op, previousBranch, stashRef) ==
  [op |-> op, previousBranch |-> previousBranch, stashRef |-> stashRef]

\* SaveUseState(previousBranch, stashRef): the branch file is written, the
\* stash reference file only when stashRef is not empty.
SaveUseState ==
  /\ Len(storeCalls) < MaxStoreCalls
  /\ \E previousBranch \in StoreBranches, stashRef \in StoreStashRefs :
       /\ prevFile' = previousBranch
       /\ stashFile' = IF SavesStashRef(stashRef) THEN stashRef ELSE stashFile
       /\ storeCalls' = Append(storeCalls, StoreCall("save", previousBranch, stashRef))
  /\ UNCHANGED <<repoVars, inv, logVars, sideVars, fin, sel, configFile, branches>>

\* ClearUseState: both files are removed; a missing file is no error.
ClearUseState ==
  /\ Len(storeCalls) < MaxStoreCalls
  /\ prevFile' = Absent
  /\ stashFile' = Absent
  /\ storeCalls' = Append(storeCalls, StoreCall("clear", "", ""))
  /\ UNCHANGED <<repoVars, inv, logVars, sideVars, fin, sel, configFile, branches>>

\* LoadUseState: an error without the branch file; the stash reference is
\* read ignoring the error.
LoadUseState ==
  IF ~HasSavedState THEN [err |-> TRUE, previousBranch |-> "", stashRef |-> ""]
  ELSE [err |-> FALSE, previousBranch |-> prevFile, stashRef |-> LoadedStashRef]

----------------------------------------------------------------------------
\* The worktree selector (package selector): New and Model.Update.

MaxListed == 3
ListedNames == <<"bugfix-x", "feature-a", "feature-b", "feature-c">>

\* A nil *ActionResult, and the ones Update makes.
NoAction == [type |-> "", path |-> <<>>, name |-> ""]
ActionResult(type, path, name) == [type |-> type, path |-> path, name |-> name]

Model(worktrees, cursor, currentPath, action, quitting) ==
  [worktrees |-> worktrees, cursor |-> cursor, currentPath |-> currentPath,
   action |-> action, quitting |-> quitting]

\* New keeps the worktrees that are not bare and lie below a .worktrees
\* directory.
New(worktrees, currentPath) ==
  Model(SecondaryOf(worktrees), 0, currentPath, NoAction, FALSE)

\* msg.String() of the key messages, and "other" for any other key or
\* message.
Keys == {"q", "esc", "ctrl+c", "up", "k", "down", "j", "enter", "d", "a", "u", "f", "other"}

ActionOfKey(key) ==
  CASE key = "enter" -> "go"
    [] key = "d" -> "delete"
    [] key = "u" -> "use"
    [] key = "f" -> "finish"

\* Variant: down at the bottom goes on by one.
MoveDownUnbounded(m) == [m EXCEPT !.cursor = @ + 1]

\* case "down", "j"
MoveDown(m) ==
  IF m.cursor < Len(m.worktrees) - 1 THEN [m EXCEPT !.cursor = @ + 1] ELSE m

\* Variant: the action is made on an empty list too, without a worktree.
ChooseOnEmpty(m, key) ==
  LET some == Len(m.worktrees) > 0
      path == IF some THEN m.worktrees[m.cursor + 1].path ELSE <<>>
      name == IF some THEN Base(path) ELSE ""
  IN  [m EXCEPT !.action = ActionResult(ActionOfKey(key), path, name),
                !.quitting = TRUE]

\* case "enter", "d", "u", "f": the worktree under the cursor, if any
Choose(m, key) ==
  IF Len(m.worktrees) > 0
  THEN LET wt == m.worktrees[m.cursor + 1]
       IN  [m EXCEPT !.action = ActionResult(ActionOfKey(key), wt.path, Base(wt.path)),
                     !.quitting = TRUE]
  ELSE m

Update(m, key) ==
  CASE key \in {"q", "esc", "ctrl+c"} ->
         [m EXCEPT !.quitting = TRUE, !.action = ActionResult("quit", <<>>, "")]
    [] key \in {"up", "k"} ->
         IF m.cursor > 0 THEN [m EXCEPT !.cursor = @ - 1] ELSE m
    [] key \in {"down", "j"} -> MoveDown(m)
    [] key \in {"enter", "d", "u", "f"} -> Choose(m, key)
    [] key = "a" ->
         [m EXCEPT !.action = ActionResult("add", <<>>, ""), !.quitting = TRUE]
    [] OTHER -> m

\* The worktree list handed to New: the primary checkout, bare or not, and
\* the first n linked worktrees.
Listed(n, bare) ==
  <<Worktree(<<"repo">>, IF bare THEN "" ELSE "main", bare)>>
    \o [i \in 1..n |-> Worktree(<<"repo", ".worktrees", ListedNames[i]>>, ListedNames[i], FALSE)]

\* No selector is open.
NoSel == [open |-> FALSE, m |-> Model(<<>>, 0, <<>>, NoAction, FALSE), key |-> "",
          was |-> Model(<<>>, 0, <<>>, NoAction, FALSE)]

\* The selector is opened on the worktrees of the repository.
SelectorNew ==
  /\ \E n \in 0..MaxListed, bare \in BOOLEAN :
       \E currentPath \in {wt.path : wt \in Range(Listed(n, bare))} :
         LET m == New(Listed(n, bare), currentPath)
         IN  sel' = [open |-> TRUE, m |-> m, key |-> "", was |-> m]
  /\ UNCHANGED <<useVars, sideVars, fin, storeCalls, configFile, branches>>

\* A key message is handled; `key` and `was` keep the key and the Model it
\* was handled on.
SelectorUpdate ==
  /\ sel.open
  /\ \E key \in Keys :
       sel' = [open |-> TRUE, m |-> Update(sel.m, key), key |-> key, was |-> sel.m]
  /\ UNCHANGED <<useVars, sideVars, fin, storeCalls, configFile, branches>>

----------------------------------------------------------------------------
Init ==
  /\ head = "main"
  /\ dirty = {}
  /\ untracked = FALSE
  /\ stash = <<>>
  /\ prevFile = Absent
  /\ stashFile = Absent
  /\ inv = [p \in Procs |-> IdleInv]
  /\ lastOk = "none"
  /\ origin = NoOrigin
  /\ histFile = NoFile
  /\ h = [p \in Procs |-> NewHistory]
  /\ calls = [p \in Procs |-> <<>>]
  /\ loaded = [p \in Procs |-> NoLoad]
  /\ hpc = [p \in Procs |-> "new"]
  /\ nav = [p \in Procs |-> IdleNav]
  /\ pwd = [p \in Procs |-> <<"repo">>]
  /\ cfgDir = ""
  /\ wtList = FreshRepo(<<"repo">>)
  /\ ran = NoRes
  /\ fin = NoFin
  /\ storeCalls = <<>>
  /\ sel = NoSel
  /\ configFile = NoConfigFile
  /\ branches = ExistingBranches

Start(p) == UseStart(p) \/ ReturnStart(p)

Step(p) ==
  \/ UseHasSavedState(p) \/ UseResolve(p) \/ UseCurrentBranch(p)
  \/ UseHasUncommitted(p) \/ UseStashPush(p) \/ UseStashList(p)
  \/ UseSavePrev(p) \/ UseSaveStash(p) \/ UseCheckout(p)
  \/ UseRollbackClearPrev(p) \/ UseRollbackClearStash(p) \/ UseRollbackPop(p)
  \/ ReturnLoadPrev(p) \/ ReturnLoadStash(p) \/ ReturnHasUncommitted(p)
  \/ ReturnCheckout(p) \/ ReturnStashPop(p)
  \/ ReturnClearPrev(p) \/ ReturnClearStash(p)
  \/ Exit(p)

User ==
  \/ UserEdit \/ UserUntracked \/ UserCommit \/ BranchMoves
  \/ UserStashPush \/ UserStashDrop \/ UserCheckout

\* Invocations one after another: a command starts, and the user acts, only
\* when no command is running; a running command runs to its end.
Next ==
  \/ AllIdle /\ Start("p1") /\ UNCHANGED otherVars
  \/ AllIdle /\ User /\ UNCHANGED otherVars
  \/ \E p \in Procs : Step(p) /\ UNCHANGED otherVars

Spec == Init /\ [][Next]_vars

\* A `worktree use` is killed between two steps of its handler: its locals
\* are lost, what it wrote stays.  CrashSeen leaves the record of the crash.
Crash(p) ==
  /\ inv[p].cmd = "use"
  /\ inv[p].pc \notin {"idle", "done", "crashed"}
  /\ inv' = [inv EXCEPT ![p].pc = "crashed"]
  /\ UNCHANGED <<repoVars, fileVars, logVars>>

CrashSeen(p) ==
  /\ inv[p].pc = "crashed"
  /\ inv' = [inv EXCEPT ![p] = IdleInv]
  /\ UNCHANGED <<repoVars, fileVars, logVars>>

NextCrash ==
  \/ Next
  \/ \E p \in Procs : (Crash(p) \/ CrashSeen(p)) /\ UNCHANGED otherVars

\* The history store used by one program at a time, each run in a fresh HOME.
NextHist ==
  \/ HistNew("p1")
  \/ HistLoad("p1")
  \/ HistRecordVisit("p1")
  \/ HistSave("p1")
  \/ HistReload("p1")
  \/ HistEnd("p1", NoFile)

SpecHist == Init /\ [][NextHist]_vars

\* Two invocations that load, record and save on the shared history file,
\* in any interleaving.
NextRace ==
  \/ \E p \in Procs : HistLoad(p)
  \/ \E p \in Procs : RaceRecordVisit(p)
  \/ \E p \in Procs : HistSave(p)
  \/ \E p \in Procs : HistEnd(p, histFile)

SpecRace == Init /\ [][NextRace]_vars

\* Navigation commands of one shell, one after another.
NextNav ==
  \/ RunWorktreeGo("p1")
  \/ NavStart("p1")
  \/ NavCommonDir("p1")
  \/ NavLoad("p1")
  \/ NavRecord("p1")
  \/ NavSave("p1")
  \/ NavEmit("p1")
  \/ NavExit("p1")
  \/ UserCd("p1")

SpecNav == Init /\ [][NextNav]_vars

SpecCrash == Init /\ [][NextCrash]_vars

\* Command lines typed one after another in one shell: the configuration,
\* `worktree add` and `worktree go`, with or without the shell function.
NextBridge ==
  \/ ConfigSet
  \/ UserOpensRepo("p1")
  \/ UserCdPrimary("p1")
  \/ TypeWorktreeAdd("p1")
  \/ TypeWorktreeGo("p1")
  \/ ShellPrompt

SpecBridge == Init /\ [][NextBridge]_vars

\* The session store alone, as the tests of the git package call it.
NextStore == SaveUseState \/ ClearUseState

SpecStore == Init /\ [][NextStore]_vars

\* The selector: opened, then any key messages.
NextSelector == SelectorNew \/ SelectorUpdate

SpecSelector == Init /\ [][NextSelector]_vars

\* Worktrees added and removed in one shell.
NextRemove ==
  \/ UserOpensRepo("p1")
  \/ TypeWorktreeAdd("p1")
  \/ TypeWorktreeRemove("p1")
  \/ ShellPrompt

SpecRemove == Init /\ [][NextRemove]_vars

\* `config set` commands one after another, with any key and value.
NextConfig ==
  \/ TypeConfigSet("p1", ConfigKeys, ConfigValues, Envs)
  \/ ShellPrompt

SpecConfig == Init /\ [][NextConfig]_vars

\* Two `worktree use` commands on one repository, their steps in any
\* order; the user edits files before they start.
UseStep(p) ==
  \/ UseHasSavedState(p) \/ UseResolve(p) \/ UseCurrentBranch(p)
  \/ UseHasUncommitted(p) \/ UseStashPush(p) \/ UseStashList(p)
  \/ UseSavePrev(p) \/ UseSaveStash(p) \/ UseCheckout(p)
  \/ UseRollbackClearPrev(p) \/ UseRollbackClearStash(p) \/ UseRollbackPop(p)

NextUseRace ==
  \/ \E p \in Procs : UseStart(p) /\ UNCHANGED otherVars
  \/ \E p \in Procs : UseStep(p) /\ UNCHANGED otherVars
  \/ AllIdle /\ UserEdit /\ UNCHANGED otherVars

SpecUseRace == Init /\ [][NextUseRace]_vars

\* `worktree finish` commands one after another, the user working on the
\* main worktree in between.
FinishStep(p) ==
  \/ FinishCurrentBranch(p) \/ FinishHasUncommitted(p) \/ FinishResolve(p)
  \/ FinishMerge(p) \/ FinishConfirm(p)
  \/ FinishRemoveWorktree(p) \/ FinishDeleteBranch(p)

NextFinish ==
  \/ AllIdle /\ FinishStart("p1")
  \/ FinishStep("p1")
  \/ Exit("p1") /\ UNCHANGED otherVars
  \/ AllIdle /\ (UserEdit \/ UserUntracked \/ UserCommit \/ UserCheckout)
       /\ UNCHANGED otherVars
  \/ AllIdle /\ (UserEndsMerge \/ UserAddsAgain)

SpecFinish == Init /\ [][NextFinish]_vars

----------------------------------------------------------------------------
\* Properties of use/return.

Ended(p, cmd) == inv[p].pc = "done" /\ inv[p].cmd = cmd

\* Nothing of the repository or the session files differs from what it was
\* when the invocation started.
Untouched(p) == Snapshot = inv[p].pre

Prompts == {"prompt:yes", "prompt:no", "prompt:abort"}

\* Use got as far as its check of the working tree, which was dirty.
DirtyAtCheck(p) ==
  /\ inv[p].cur # ""
  /\ inv[p].pre.dirty # {} \/ inv[p].pre.untracked

C2_ActiveOnlyAfterCheckout ==
  \A p \in Procs :
    Ended(p, "use") /\ inv[p].pre.prevFile = Absent /\ prevFile # Absent =>
      "checkout" \in inv[p].did

\* C3: Use run in the main worktree while the previous-branch file exists
\* returns STATE_EXISTS, having asked nothing and called nothing that
\* changes the repository or the session files.
C3_UseWhileActiveRefused ==
  \A p \in Procs :
    Ended(p, "use") /\ inv[p].cwd = "main" /\ inv[p].pre.prevFile # Absent =>
      /\ inv[p].result = "STATE_EXISTS"
      /\ inv[p].did = {}
      /\ Untouched(p)

C3_Witness ==
  \E p \in Procs :
    /\ Ended(p, "use") /\ inv[p].result = "STATE_EXISTS"
    /\ inv[p].pre.dirty # {}
    /\ inv[p].pre.stashFile = Absent

C5_DeclinedStashCancels ==
  \A p \in Procs :
    Ended(p, "use") /\ "prompt:no" \in inv[p].did =>
      /\ inv[p].result = "CANCELLED"
      /\ inv[p].did = {"prompt:no"}
      /\ Untouched(p)
      /\ prevFile = Absent /\ stashFile = Absent

C5_Witness ==
  \E p \in Procs :
    /\ Ended(p, "use") /\ inv[p].result = "CANCELLED"
    /\ inv[p].pre.dirty # {} /\ inv[p].tty

\* C6: a Return in the main worktree returns NO_STATE when the session is
\* Idle and UNCOMMITTED_CHANGES when it is Active and the tree is dirty;
\* every Return that returns an error leaves both session files, the stash
\* stack and the working tree as they were, and the branch too; only
\* CHECKOUT_ERROR has tried a checkout.
C6_ReturnErrorsChangeNothing ==
  \A p \in Procs :
    Ended(p, "return") =>
      /\ inv[p].cwd = "secondary" => inv[p].result = "NOT_MAIN_WORKTREE"
      /\ inv[p].cwd = "main" /\ inv[p].pre.prevFile = Absent =>
           inv[p].result = "NO_STATE"
      /\ /\ inv[p].cwd = "main" /\ inv[p].pre.prevFile # Absent
         /\ inv[p].pre.dirty # {} \/ inv[p].pre.untracked
         => inv[p].result = "UNCOMMITTED_CHANGES"
      /\ inv[p].result # "OK" =>
           /\ Untouched(p)
           /\ inv[p].did = IF inv[p].result = "CHECKOUT_ERROR"
                           THEN {"checkout_failed"} ELSE {}

C6_Witness ==
  \E p \in Procs :
    /\ Ended(p, "return") /\ inv[p].result = "CHECKOUT_ERROR"
    /\ inv[p].pre.stashFile # Absent /\ stash # <<>>

C8_UseReturnRoundTrip ==
  \A p \in Procs :
    /\ Ended(p, "return") /\ inv[p].result = "OK"
    /\ lastOk = "use" /\ origin.head \in Branches
    /\ "pop_failed" \notin inv[p].did
    => /\ head = origin.head
       /\ prevFile = Absent /\ stashFile = Absent
       /\ origin.stashed \subseteq dirty

\* C9: a Use succeeds only from Idle and a Return only from Active, and
\* successful Use and successful Return alternate, the first being a Use.
C9_UseReturnAlternate ==
  \A p \in Procs :
    inv[p].pc = "done" /\ inv[p].result = "OK" =>
      /\ inv[p].cmd = "use" =>
           inv[p].pre.prevFile = Absent /\ lastOk \in {"none", "return"}
      /\ inv[p].cmd = "return" =>
           inv[p].pre.prevFile # Absent /\ lastOk = "use"

\* C10: when a Use that started Idle is killed between two steps, either the
\* session is Idle and the changes it stashed are in the working tree, or
\* the session files name the branch Use started on and, when Use stashed,
\* the stash reference, with Use's entry on top of the stash stack.
C10_UseCrashSafe ==
  \A p \in Procs :
    /\ inv[p].pc = "crashed"
    /\ inv[p].pre.prevFile = Absent /\ inv[p].pre.stashFile = Absent
    => LET pushed == "stash_push" \in inv[p].did
       IN  \/ /\ prevFile = Absent
              /\ pushed => inv[p].pre.dirty \subseteq dirty
           \/ /\ prevFile = inv[p].pre.head
              /\ pushed =>
                   /\ stashFile = "stash@{0}"
                   /\ stash # <<>>
                   /\ Head(stash).changes = inv[p].pre.dirty

----------------------------------------------------------------------------
\* Properties of the History Store.

\* The calls made for one repository, in order, and the path of the i-th
\* (the empty string before the first).
VisitsOf(cs, r) == SelectSeq(cs, LAMBDA c : c.repo = r)

PathAt(v, i) == IF i = 0 THEN EmptyString ELSE v[i].path

LastRecorded(cs, r) == PathAt(VisitsOf(cs, r), Len(VisitsOf(cs, r)))

\* The calls that recorded a path other than the one recorded before them.
ChangingCalls(v) == {i \in 1..Len(v) : v[i].path # PathAt(v, i - 1)}

CurrentBeforeLastChange(cs, r) ==
  LET v == VisitsOf(cs, r)
      last == CHOOSE i \in ChangingCalls(v) : \A j \in ChangingCalls(v) : j <= i
  IN  IF ChangingCalls(v) = {} THEN EmptyString ELSE PathAt(v, last - 1)

\* The history a fresh store holds after the calls cs.
RECURSIVE Replay(_, _)
Replay(hh, cs) ==
  IF cs = <<>> THEN hh
  ELSE Replay(RecordVisit(hh, Head(cs).repo, Head(cs).path), Tail(cs))

Front(cs) == SubSeq(cs, 1, Len(cs) - 1)
Before(p) == Replay(NewHistory, Front(calls[p]))
LastCall(p) == calls[p][Len(calls[p])]
EntriesOf(hh) == DOMAIN hh.RepoHistory.entries

\* C11: after any sequence of RecordVisit calls, GetCurrent(R) is the last
\* path recorded for R and GetPrevious(R) is what GetCurrent(R) was right
\* before the last call that changed it (A, B, C gives current C, previous B).
C11_HistoryDepthTwo ==
  hpc["p1"] # "new" =>
    \A r \in HistRepos :
      /\ GetCurrent(h["p1"], r) = LastRecorded(calls["p1"], r)
      /\ GetPrevious(h["p1"], r) = CurrentBeforeLastChange(calls["p1"], r)

C11_Witness ==
  /\ hpc["p1"] = "build"
  /\ Len(calls["p1"]) = 3
  /\ \A i \in 1..3 : calls["p1"][i].repo = <<"repo", ".git">>
  /\ calls["p1"][1].path = <<"a">>
  /\ calls["p1"][2].path = <<"b">>
  /\ calls["p1"][3].path = <<"c">>
  /\ GetCurrent(h["p1"], <<"repo", ".git">>) = <<"c">>
  /\ GetPrevious(h["p1"], <<"repo", ".git">>) = <<"b">>

\* C12: RecordVisit(R, X) when GetCurrent(R) is already X leaves
\* GetPrevious(R), GetCurrent(R) and every other repository's entry as
\* they were.
C12_RevisitIdempotent ==
  (/\ hpc["p1"] = "build"
   /\ calls["p1"] # <<>>
   /\ GetCurrent(Before("p1"), LastCall("p1").repo) = LastCall("p1").path) =>
    /\ EntriesOf(h["p1"]) = EntriesOf(Before("p1"))
    /\ \A r \in HistRepos :
         /\ GetCurrent(h["p1"], r) = GetCurrent(Before("p1"), r)
         /\ GetPrevious(h["p1"], r) = GetPrevious(Before("p1"), r)

C12_Witness ==
  /\ hpc["p1"] = "build"
  /\ Len(calls["p1"]) = 3
  /\ calls["p1"][1] = Call(<<"repo", ".git">>, <<"a">>)
  /\ calls["p1"][2] = Call(<<"repo", ".git">>, <<"b">>)
  /\ calls["p1"][3] = Call(<<"repo", ".git">>, <<"b">>)
  /\ GetPrevious(h["p1"], <<"repo", ".git">>) = <<"a">>

\* C18: for a history built by RecordVisit calls, Save followed by
\* LoadHistory gives a store whose GetCurrent and GetPrevious equal the
\* in-memory values for every repository.
C18_HistoryRoundTrip ==
  hpc["p1"] = "loaded" =>
    /\ ~loaded["p1"].err
    /\ \A r \in HistRepos :
         /\ GetCurrent(loaded["p1"].history, r) = GetCurrent(h["p1"], r)
         /\ GetPrevious(loaded["p1"].history, r) = GetPrevious(h["p1"], r)

\* C19: RecordVisit(R1, p) changes only the entry of R1; a repository never
\* visited has no entry and reads as the empty string; no operation removes
\* an entry.
C19_RecordVisitFrame ==
  [][/\ hpc'["p1"] # "new" => EntriesOf(h["p1"]) \subseteq EntriesOf(h'["p1"])
     /\ (hpc'["p1"] = "build" /\ calls'["p1"] # calls["p1"]) =>
          \A r \in HistRepos :
            /\ r # calls'["p1"][Len(calls'["p1"])].repo =>
                 /\ GetCurrent(h'["p1"], r) = GetCurrent(h["p1"], r)
                 /\ GetPrevious(h'["p1"], r) = GetPrevious(h["p1"], r)
                 /\ (r \in EntriesOf(h'["p1"])) = (r \in EntriesOf(h["p1"]))
            /\ VisitsOf(calls'["p1"], r) = <<>> =>
                 /\ r \notin EntriesOf(h'["p1"])
                 /\ GetCurrent(h'["p1"], r) = EmptyString
                 /\ GetPrevious(h'["p1"], r) = EmptyString
    ]_vars

C19_Witness ==
  /\ hpc["p1"] = "build"
  /\ Len(calls["p1"]) = 3
  /\ calls["p1"][1] = Call(<<"repo", ".git">>, <<"a">>)
  /\ calls["p1"][2] = Call(<<"repo", ".git">>, <<"b">>)
  /\ calls["p1"][3] = Call(<<"other", ".git">>, <<"c">>)
  /\ GetCurrent(h["p1"], <<"repo", ".git">>) = <<"b">>
  /\ GetPrevious(h["p1"], <<"repo", ".git">>) = <<"a">>

\* C20: when two invocations interleave Load, RecordVisit and Save, the file
\* holds exactly the store of the one that saved last; what the other had
\* saved and the last writer had not loaded is gone.
C20_LastWriterWins ==
  \A p \in Procs : hpc[p] = "saved" => histFile = Marshal(h[p])

C20_Witness ==
  \E p, q \in Procs :
    /\ hpc[p] = "saved"
    /\ hpc[q] = "overwritten"
    /\ calls[q] # <<>>
    /\ calls[p] # <<>>
    /\ calls[q][1].repo # calls[p][1].repo
    /\ histFile = Marshal(h[p])
    /\ calls[q][1].repo \notin DOMAIN histFile.repo_history.entries

----------------------------------------------------------------------------
\* Properties of navigation.

NavEnded(p, cmd) == nav[p].pc = "done" /\ nav[p].cmd = cmd

\* The entry of the repository in the history file when the command started
\* and now, as LoadHistory reads it.
EntryBefore(p) == MapIndex(LoadHistory(nav[p].pre).history.RepoHistory, nav[p].key)
EntryNow(p) == MapIndex(LoadHistory(histFile).history.RepoHistory, nav[p].key)

MainDir == <<"repo">>
FeatDir == <<"repo", ".worktrees", "feat">>

\* C13: with A visited before B, GoPrevious navigates to A and records it
\* (current A, previous B); a second GoPrevious navigates back to B.
\* GoPrevious went through: it succeeded, or only its Save failed.
WentThrough(p) ==
  \/ nav[p].result = "OK"
  \/ nav[p].result = "HISTORY_ERROR" /\ nav[p].saveFailed

\* The two commands before this GoPrevious visited two different places.
VisitedTwo(p) ==
  /\ NavEnded(p, "previous")
  /\ IsInsideWorkTree(nav[p].cwd)
  /\ nav[p].last.ok
  /\ nav[p].last.cmd # "go"
  /\ nav[p].last.before # EmptyString
  /\ nav[p].last.before # nav[p].last.target

C14_GoRecordsVisit ==
  \A p \in Procs :
    (NavEnded(p, "go") /\ nav[p].result = "OK") =>
      GetCurrent(LoadHistory(histFile).history, GetGitCommonDir(nav[p].cwd))
        = nav[p].target

\* The first visit of a repository: no current path was recorded for it.
FirstVisit(p) == EntryBefore(p).Current = EmptyString

\* The GoPrevious that ended, run inside the repository, is the command right
\* after a first navigation.
AfterFirstVisit(p) ==
  /\ NavEnded(p, "previous")
  /\ IsInsideWorkTree(nav[p].cwd)
  /\ nav[p].last.cmd = "navigate"
  /\ nav[p].last.ok
  /\ nav[p].last.first

C16_NoPreviousFails ==
  \A p \in Procs :
    (/\ NavEnded(p, "previous")
     /\ IsInsideWorkTree(nav[p].cwd)
     /\ EntryBefore(p).Previous = EmptyString) =>
      /\ nav[p].result # "OK"
      /\ nav[p].out = "none"
      /\ histFile = nav[p].pre

C16_Witness ==
  /\ NavEnded("p1", "previous")
  /\ nav["p1"].result = "NO_PREVIOUS"
  /\ EntryBefore("p1") = RepoState(EmptyString, FeatDir)
  /\ histFile = nav["p1"].pre

----------------------------------------------------------------------------
\* Name resolution, as `worktree go` does it on the live list.

\* A `worktree go` that came to look its name up.
GoLooked == ran.cmd = "go" /\ ran.result \in {"OK", "WORKTREE_NOT_FOUND"}
GoListed == ran.cmd = "go" /\ ran.result \notin {"NOT_GIT_REPO", "WORKTREE_LIST_ERROR"}
Candidates == Range(ran.cands)

BySegment(wt) == Base(wt.path) = ran.name
ByBranch(wt) == wt.branch = ran.name
BySuffix(wt) == SuffixGlob(ran.name, Base(wt.path))

\* C21: when some candidate's last path segment is the token, Go resolves
\* to a worktree whose last path segment is the token, wherever a candidate
\* whose branch is the token stands in the list.
C21_SegmentBeatsBranch ==
  (GoLooked /\ \E wt \in Candidates : BySegment(wt))
    => ran.result = "OK" /\ Base(ran.target) = ran.name

\* C22: when no candidate's last path segment or branch is the token and
\* some candidate's last path segment matches *-<token>, Go resolves to such
\* a candidate instead of failing.
C22_SuffixReference ==
  ( /\ GoLooked
    /\ \A wt \in Candidates : ~BySegment(wt) /\ ~ByBranch(wt)
    /\ \E wt \in Candidates : BySuffix(wt) )
    => ran.result = "OK" /\ SuffixGlob(ran.name, Base(ran.target))

Named(wt, name) == Base(wt.path) = name /\ wt.branch = name
SpecExample ==
  /\ Len(ran.cands) = 2
  /\ \E wt \in Candidates : Named(wt, "feature-auth")
  /\ \E wt \in Candidates : Named(wt, "bugfix-login")

\* C23: a token that is no candidate's last path segment, no candidate's
\* branch and matches no candidate by *-<token> resolves to nothing and
\* gives WORKTREE_NOT_FOUND; with the worktrees feature-auth and
\* bugfix-login the token feat finds nothing and the token feature-auth
\* finds the one worktree feature-auth.
C23_NoRuleNoMatch ==
  GoLooked =>
    /\ (\A wt \in Candidates : ~BySegment(wt) /\ ~ByBranch(wt) /\ ~BySuffix(wt))
         => ran.result = "WORKTREE_NOT_FOUND" /\ ran.target = <<>>
    /\ (SpecExample /\ ran.name = "feat")
         => ran.result = "WORKTREE_NOT_FOUND" /\ ran.target = <<>>
    /\ (SpecExample /\ ran.name = "feature-auth")
         => /\ ran.result = "OK"
            /\ Base(ran.target) = "feature-auth"
            /\ Cardinality({wt \in Candidates : BySegment(wt) \/ ByBranch(wt)}) = 1

C23_Witness ==
  /\ GoLooked /\ SpecExample /\ ran.name = "feat"
  /\ ran.result = "WORKTREE_NOT_FOUND"

HasSegment(path, seg) == \E i \in 1..(Len(path) - 1) : path[i] = seg

\* C24: the candidates of Go are exactly the worktrees of the list that are
\* not bare and whose path has the configured base directory as a segment,
\* and neither a bare entry nor the primary checkout is one of them.
C24_CandidatesAreSecondary ==
  GoListed =>
    /\ Candidates = {wt \in Range(wtList) :
                       ~wt.bare /\ HasSegment(wt.path, GetWorktreeDir(cfgDir))}
    /\ wtList[1] \notin Candidates
    /\ \A wt \in Candidates : ~wt.bare

\* C25: whatever worktree_dir is, the worktree a successful `worktree add`
\* made is a candidate of Go and its name resolves to it.
C25_AddedIsCandidate ==
  (ran.cmd = "add" /\ ran.result = "OK") =>
    LET wts == SecondaryOf(wtList)
    IN  \E i \in 1..Len(wts) :
          wts[i].path = ran.target /\ FindTarget(wts, ran.name) = i

----------------------------------------------------------------------------
\* The shell bridge.

\* The text as a whole matches `cd *`.
StartsWithCd(out) == out # <<>> /\ out[1].pre = CdPrefix

DirectoryChange == ran.cmd = "go" /\ ran.result = "OK" /\ ~ran.json

C27_WrapperEvaluatesOnlyCd ==
  (ran.cmd # "none" /\ ran.mode \in Shells) =>
    IF StartsWithCd(ran.out) THEN ran.wrap.did = "eval"
    ELSE /\ ran.wrap.did = "print"
         /\ ran.wrap.text = ran.out
         /\ ran.wrap.code = ran.status

----------------------------------------------------------------------------
\* Finish.

\* git merge was run by this command.
MergeRun(p) == inv[p].did \cap {"merge", "merge_failed"} # {}

\* The secondary worktree that has branch b checked out, at the start of
\* the command.
HadWorktreeOn(p, b) ==
  \E i \in 1..Len(ListWorktrees) :
    /\ IsSecondary(ListWorktrees[i])
    /\ ListWorktrees[i].path \notin inv[p].pre.fin.removed
    /\ ListWorktrees[i].branch = b

FinishUntouched(p) ==
  /\ inv[p].did = {}
  /\ fin = inv[p].pre.fin
  /\ Snapshot = inv[p].pre.repo

CleanAtStart(p) ==
  /\ inv[p].pre.repo.dirty = {}
  /\ ~inv[p].pre.repo.untracked
  /\ ~inv[p].pre.fin.merging

\* C28: Finish runs git merge only in the main worktree, on the branch
\* main, with a clean working tree and for a secondary worktree that has a
\* branch; when one of these fails it ends with the error of that check and
\* has merged, removed and deleted nothing.
C28_FinishGuarded ==
  \A p \in Procs : inv[p].cmd = "finish" =>
    /\ MergeRun(p) =>
         /\ inv[p].cwd = "main"
         /\ inv[p].pre.repo.head = "main"
         /\ CleanAtStart(p)
         /\ inv[p].target # "" /\ HadWorktreeOn(p, inv[p].target)
    /\ inv[p].pc = "done" =>
         /\ inv[p].cwd = "outside" => inv[p].result = "NOT_GIT_REPO"
         /\ inv[p].cwd = "secondary" => inv[p].result = "NOT_MAIN_WORKTREE"
         /\ (inv[p].cwd = "main" /\ inv[p].pre.repo.head # "main")
              => inv[p].result \in {"BRANCH_ERROR", "NOT_MAIN_BRANCH"}
         /\ (inv[p].cwd = "main" /\ inv[p].pre.repo.head = "main" /\ ~CleanAtStart(p))
              => inv[p].result \in {"BRANCH_ERROR", "UNCOMMITTED_CHANGES"}
         /\ inv[p].result \in {"WORKTREE_NOT_FOUND", "DETACHED_HEAD"} => ~MergeRun(p)
         /\ ~MergeRun(p) => inv[p].result # "OK" /\ FinishUntouched(p)

C28_Witness ==
  \E p \in Procs :
    /\ Ended(p, "finish") /\ inv[p].result = "UNCOMMITTED_CHANGES"
    /\ inv[p].pre.repo.head = "main" /\ FinishUntouched(p)

\* C29: when git merge fails Finish ends at once with an error: nothing is
\* asked, no worktree is removed and no branch is deleted.
C29_MergeFailureStops ==
  \A p \in Procs : (inv[p].cmd = "finish" /\ "merge_failed" \in inv[p].did) =>
    /\ inv[p].pc = "done"
    /\ inv[p].result = "MERGE_FAILED"
    /\ inv[p].did = {"merge_failed"}
    /\ inv[p].warn = {}
    /\ fin.removed = inv[p].pre.fin.removed
    /\ fin.deleted = inv[p].pre.fin.deleted

C29_Witness ==
  \E p \in Procs :
    /\ Ended(p, "finish") /\ "merge_failed" \in inv[p].did
    /\ IsTTY(inv[p]) /\ fin.merging

\* C30: once the merge succeeded and the cleanup was accepted, both cleanup
\* steps are tried whatever the first one gave, each failure is a warning,
\* Finish reports success and the merge stays.
C30_CleanupBestEffort ==
  \A p \in Procs : (inv[p].cmd = "finish" /\ "prompt:yes" \in inv[p].did) =>
    /\ inv[p].pc \in {"f_remove", "f_delete", "done"}
    /\ inv[p].target \in fin.merged
    /\ inv[p].pc = "done" =>
         /\ inv[p].result = "OK"
         /\ inv[p].did \cap {"remove", "remove_failed"} # {}
         /\ inv[p].did \cap {"delete", "delete_failed"} # {}
         /\ "remove_failed" \in inv[p].did <=> "remove" \in inv[p].warn
         /\ "delete_failed" \in inv[p].did <=> "delete" \in inv[p].warn
         /\ "delete" \in inv[p].did => inv[p].target \in fin.deleted
         /\ "remove" \in inv[p].did => fin.removed # inv[p].pre.fin.removed

C30_Witness ==
  \E p \in Procs :
    /\ Ended(p, "finish") /\ inv[p].result = "OK"
    /\ "remove_failed" \in inv[p].did /\ "delete_failed" \in inv[p].did
    /\ inv[p].target \in fin.merged

----------------------------------------------------------------------------
\* Errors with --json.

\* C31: with --json every command of Go's, Use's, Return's and Finish's
\* kind that ends with an error has printed one JSON object that carries the
\* machine code of the error and its sentence.
C31_JsonErrorsStructured ==
  \A p \in Procs :
    (inv[p].pc = "done" /\ inv[p].json /\ inv[p].result # "OK") =>
      ErrorExit(inv[p]) = JSON(inv[p].result)

----------------------------------------------------------------------------
\* The session store.

LastStoreCall == storeCalls[Len(storeCalls)]

\* A SaveUseState has been called and no ClearUseState after it.
SavedAndNotCleared == storeCalls # <<>> /\ LastStoreCall.op = "save"

\* C32: after any SaveUseState and ClearUseState calls, HasSavedState is
\* true exactly when a SaveUseState was not followed by a ClearUseState,
\* and then LoadUseState gives the previous branch and the stash reference
\* of the last SaveUseState, the empty reference when it passed none.
C32_LoadReturnsLastSave ==
  /\ HasSavedState <=> SavedAndNotCleared
  /\ SavedAndNotCleared =>
       LoadUseState = [err |-> FALSE,
                       previousBranch |-> LastStoreCall.previousBranch,
                       stashRef |-> LastStoreCall.stashRef]

----------------------------------------------------------------------------
\* The stash entry Return pops.

\* C33: when a Return that follows a successful Use pops a stash entry, the
\* entry is the one that Use made: its changes are the ones Use put away,
\* whatever else was pushed on the stash stack in between.
C33_ReturnPopsOwnStash ==
  \A p \in Procs :
    (inv[p].cmd = "return" /\ "pop" \in inv[p].did /\ lastOk = "use") =>
      /\ origin.stashed # {}
      /\ Head(inv[p].pre.stash).changes = origin.stashed

----------------------------------------------------------------------------
\* `worktree remove`.

\* C34: when some worktree's last path segment is the name given to
\* `worktree remove`, the worktree the command goes for has that last path
\* segment, wherever a worktree that only matches *-<name> stands in the list.
C34_RemovePrefersExact ==
  ( /\ ran.cmd = "remove"
    /\ ran.result \in {"OK", "WORKTREE_REMOVE_ERROR"}
    /\ \E wt \in Range(ran.cands) : Base(wt.path) = ran.name )
    => Base(ran.target) = ran.name

----------------------------------------------------------------------------
\* The cd line in the shell.

\* C39: when the shell function gets the cd line of a successful Go, the
\* evaluation succeeds and the shell stands in the worktree Go resolved,
\* whatever characters its path has.
C39_CdLandsOnPath ==
  (ran.cmd = "go" /\ ran.mode \in Shells /\ ran.result = "OK" /\ ~ran.json) =>
    /\ ran.wrap.did = "eval"
    /\ ran.wrap.code = 0
    /\ pwd["p1"] = ran.target

----------------------------------------------------------------------------
\* Two Use commands at once.

\* Both commands are `worktree use`, started on the same state of the
\* repository with no session, and both have ended.
BothUsed(p, q) ==
  /\ p # q
  /\ Ended(p, "use") /\ Ended(q, "use")
  /\ inv[p].pre = inv[q].pre
  /\ inv[p].pre.prevFile = Absent

\* C35: of two Use commands that both found no session, at most one ends
\* with success, and the previous branch then recorded is the branch the
\* main worktree was on before they started.
C35_ConcurrentUseExclusive ==
  \A p, q \in Procs : BothUsed(p, q) =>
    /\ ~(inv[p].result = "OK" /\ inv[q].result = "OK")
    /\ (inv[p].result = "OK" /\ prevFile # Absent) => prevFile = inv[p].pre.head

----------------------------------------------------------------------------
\* The selector.

NavKeys == {"up", "k", "down", "j"}
ActionKeys == {"enter", "d", "u", "f"}
QuitKeys == {"q", "esc", "ctrl+c"}

\* The last index of the list, 0 for an empty list.
LastIndex(m) == IF Len(m.worktrees) = 0 THEN 0 ELSE Len(m.worktrees) - 1

\* C36: the cursor stays within 0..max(0, len-1); up/k at the top and
\* down/j at the bottom leave it where it is; the navigation keys set no
\* action and do not quit.
C36_CursorInRange ==
  sel.open =>
    /\ sel.m.cursor >= 0 /\ sel.m.cursor <= LastIndex(sel.m)
    /\ (sel.key \in {"up", "k"} /\ sel.was.cursor = 0) => sel.m.cursor = 0
    /\ (sel.key \in {"down", "j"} /\ sel.was.cursor = LastIndex(sel.was))
         => sel.m.cursor = sel.was.cursor
    /\ sel.key \in NavKeys =>
         /\ sel.m.action = sel.was.action
         /\ sel.m.quitting = sel.was.quitting

\* down was pressed at the bottom of a list of several worktrees.
C36_Witness ==
  /\ sel.open /\ sel.key = "down"
  /\ Len(sel.was.worktrees) >= 2
  /\ sel.was.cursor = Len(sel.was.worktrees) - 1
  /\ ~sel.m.quitting

\* C37: an action is set exactly when quitting is; enter/d/u/f on a list
\* with worktrees make the go/delete/use/finish action with the path and
\* base name of the worktree under the cursor, and on an empty list leave
\* the model as it was; a makes add and q/esc/ctrl+c make quit on any list.
C37_ActionIffQuitting ==
  sel.open =>
    /\ (sel.m.action # NoAction) <=> sel.m.quitting
    /\ sel.m.action.type \in {"go", "delete", "use", "finish"} => Len(sel.m.worktrees) > 0
    /\ (sel.key \in ActionKeys /\ Len(sel.was.worktrees) > 0) =>
         /\ sel.m.quitting
         /\ sel.m.action.type = ActionOfKey(sel.key)
         /\ sel.m.action.path = sel.was.worktrees[sel.was.cursor + 1].path
         /\ sel.m.action.name = Base(sel.was.worktrees[sel.was.cursor + 1].path)
    /\ (sel.key \in ActionKeys /\ Len(sel.was.worktrees) = 0) => sel.m = sel.was
    /\ sel.key = "a" => sel.m.quitting /\ sel.m.action.type = "add"
    /\ sel.key \in QuitKeys => sel.m.quitting /\ sel.m.action.type = "quit"

\* enter was pressed on an empty list that had no action yet.
C37_Witness ==
  /\ sel.open /\ sel.key = "enter"
  /\ Len(sel.was.worktrees) = 0
  /\ ~sel.m.quitting

----------------------------------------------------------------------------
\* The two slots of a repository's history.

\* C38: whenever a current path is recorded for a repository, the
\* previous path recorded for it is a different one.
C38_PreviousDiffersFromCurrent ==
  \A p \in Procs, repoRoot \in HistRepos :
    GetCurrent(h[p], repoRoot) # EmptyString
      => GetPrevious(h[p], repoRoot) # GetCurrent(h[p], repoRoot)

\* A path was recorded, another one after it, and the current one was
\* then recorded again: both slots are filled.
C38_Witness ==
  \E repoRoot \in HistRepos :
    /\ hpc["p1"] = "build"
    /\ Len(calls["p1"]) >= 2
    /\ calls["p1"][Len(calls["p1"])] = calls["p1"][Len(calls["p1"]) - 1]
    /\ calls["p1"][Len(calls["p1"])].repo = repoRoot
    /\ GetCurrent(h["p1"], repoRoot) # EmptyString
    /\ GetPrevious(h["p1"], repoRoot) # EmptyString

----------------------------------------------------------------------------
\* `config set`.

\* The fields of the configuration file, the defaults standing for a file
\* that does not exist.
FileFields(file, dir) ==
  IF file.exists
  THEN [default_provider |-> file.default_provider, worktree_dir |-> dir,
        providers |-> file.providers]
  ELSE [default_provider |-> SaveTo(getDefaultConfig).default_provider,
        worktree_dir |-> "",
        providers |-> SaveTo(getDefaultConfig).providers]

\* C40: `config set <key> <value>` changes the named key and nothing else
\* of the file: the other key and every provider, its api_key reference
\* included, stay as they were; a command that is rejected or fails leaves
\* the file as it was.
C40_SetChangesOnlyNamedKey ==
  [][(ran = NoRes /\ ran'.cmd = "config set") =>
       LET before == FileFields(configFile, cfgDir)
           after == FileFields(configFile', cfgDir')
           key == ToLower(ran'.name)
       IN  IF ran'.result # "OK"
           THEN configFile' = configFile /\ cfgDir' = cfgDir
           ELSE /\ after.providers = before.providers
                /\ key # "default_provider"
                     => after.default_provider = before.default_provider
                /\ key # "worktree_dir" => after.worktree_dir = before.worktree_dir
                /\ key = "default_provider" => after.default_provider = ran'.target[1]
                /\ key = "worktree_dir" => after.worktree_dir = ran'.target[1]]_vars

====
